---- MODULE Spec2Model ----
(***************************************************************************)
(* Morty API 2: the users / categories / posts repositories over a         *)
(* PostgreSQL store, the bearer-token credential engine, the role          *)
(* authority and the route handlers that gate the repositories.            *)
(*                                                                         *)
(* Text values whose letter case matters (emails, category names, slugs)   *)
(* are sequences of one-character strings; every other text is a string.   *)
(* Instants are clock ticks, TicksPerSecond of them to a second; a NULL    *)
(* column holds NULL.                                                      *)
(***************************************************************************)
EXTENDS Integers, Sequences, FiniteSets, TLC

(* ------------------------------ bounds --------------------------------- *)
MaxTime == 1            \* the clock of the repositories runs over ticks 0..MaxTime
MaxAuthTime == 3        \* the clock of the credential engine runs up to MaxAuthTime
TicksPerSecond == 2     \* resolution of the clock below one second
MaxUserSeq == 2         \* values the users id sequence hands out
MaxCatSeq == 2          \* values the categories id sequence hands out
MaxPostSeq == 2         \* values the posts id sequence hands out
NumDefaultCategories == 1   \* length of config.defaultCategories
NumProcs == 2           \* requests, or booting processes, at work at a time
MaxRuns == 2            \* times a process runs the initialization
SearchRows == 5         \* rows of the tables the searches run over

(* ----------------------------- constants ------------------------------- *)
NULL == -1
DefaultRole == 4

user_roles == <<"Admin", "Editor", "Author", "Commenter">>

(* ------------------------------ state ---------------------------------- *)
VARIABLES
  scope,      \* which repository this run exercises; the others keep their rows
  now,        \* the clock (CURRENT_TIMESTAMP, new Date(), Date.now())
  users,      \* table users: id -> row
  userSeq,    \* next value of the sequence behind users.id
  categories, \* table categories: id -> row
  catSeq,     \* next value of the sequence behind categories.id
  posts,      \* table posts: id -> row
  postSeq,    \* next value of the sequence behind posts.id
  tags,       \* table tags: the (post, name) pairs
  token,      \* the bearer token a client holds (the last one login issued)
  flight,     \* what each process is in the middle of: a changePassword or
              \* changeEmail call between its SELECT and its UPDATE, or a run
              \* of the table initialization
  schema,     \* the relations that exist and the rows of user_roles
  res         \* the last operation: its name, its inputs and its outcome

vars == <<scope, now, users, userSeq, categories, catSeq, posts, postSeq, tags,
          token, flight, schema, res>>

userTables == <<users, userSeq>>
categoryTables == <<categories, catSeq>>
postTables == <<posts, postSeq, tags>>
tables == <<users, userSeq, categories, catSeq, posts, postSeq, tags>>

(* ------------------------------ values --------------------------------- *)
Ok(v) == [ok |-> TRUE, val |-> v]
Err(m) == [ok |-> FALSE, err |-> m, code |-> ""]
\* an error the pg driver raises: err.code is the SQLSTATE
PgErr(c) == [ok |-> FALSE, err |-> "pg", code |-> c]

NoRows == [i \in {} |-> 0]
NoToken == [id |-> NULL, iat |-> NULL, at |-> NULL]

LowerChar(c) ==
  CASE c = "A" -> "a" [] c = "B" -> "b" [] c = "D" -> "d" [] c = "N" -> "n"
    [] c = "M" -> "m" [] c = "P" -> "p" [] c = "S" -> "s" [] c = "T" -> "t"
    [] c = "X" -> "x" [] OTHER -> c

toLowerCase(s) == [i \in DOMAIN s |-> LowerChar(s[i])]

\* a payload: present is FALSE for undefined / null, fields holds the keys given
NoPayload == [present |-> FALSE, fields |-> <<>>]
Payload(f) == [present |-> TRUE, fields |-> f]
EmptyObject == Payload(<<>>)

\* JavaScript truthiness of payload[key]: the key is there and its value is
\* neither the empty text, 0 nor false
Truthy(p, key) ==
  /\ key \in DOMAIN p
  /\ p[key] # IF key \in {"email", "name", "slug", "tags"} THEN <<>>
              ELSE IF key \in {"role", "author", "category", "id"} THEN 0
              ELSE IF key \in {"published"} THEN FALSE
              ELSE IF key \in {"deletedAt", "tokenBlacklistDate"} THEN NULL
              ELSE ""

(* ------------------------- Credential Engine --------------------------- *)
createHash(password) == "$2b$" \o password

verifyCredentials(password, hash) == hash = createHash(password)

\* jwt.sign stamps iat with the clock in whole seconds; `at` is the instant of
\* the signing, which the token itself does not carry
createToken(id, t) == [id |-> id, iat |-> t \div TicksPerSecond, at |-> t]

(* --------------------------- User Service ------------------------------ *)
verifyToken_LateAccept(U, id, createTime) ==
  IF createTime = NULL THEN PgErr("22007")
  ELSE IF \E i \in DOMAIN U :
       /\ i = id
       /\ U[i].deletedAt = NULL
       /\ (U[i].tokenBlacklistDate = NULL \/ U[i].tokenBlacklistDate <= createTime)
  THEN Ok(TRUE) ELSE Err("Invalid Token")

\* createTime is NULL for the Invalid Date a missing iat turns into: the
\* server refuses it as a timestamp parameter and the query fails
verifyToken(U, id, createTime) ==
  IF createTime = NULL THEN PgErr("22007")
  ELSE IF \E i \in DOMAIN U :
       /\ i = id
       /\ U[i].deletedAt = NULL
       /\ (U[i].tokenBlacklistDate = NULL \/ U[i].tokenBlacklistDate < createTime)
  THEN Ok(TRUE) ELSE Err("Invalid Token")

Caught_FailOpen(lookup) == [isValid |-> TRUE]

\* the try / catch of validateToken around the outcome of the lookup
Caught(lookup) == IF lookup.ok THEN [isValid |-> TRUE] ELSE [isValid |-> FALSE]

\* a claim set without iat (NULL) gives the Invalid Date; one without id
\* (NULL) looks up the id NULL, which no row has
validateToken(U, decoded) ==
  LET createTime == IF decoded.iat = NULL THEN NULL
                    ELSE decoded.iat * TicksPerSecond
  IN  Caught(verifyToken(U, decoded.id, createTime))

login_LeakyError(U, email, password, t) ==
  LET rows == {i \in DOMAIN U : U[i].deletedAt = NULL /\ U[i].email = toLowerCase(email)}
  IN  IF rows = {} THEN Err("No User Found")
      ELSE LET id == CHOOSE i \in rows : TRUE
           IN  IF ~verifyCredentials(password, U[id].password)
               THEN Err("Invalid Credentials")
               ELSE Ok(createToken(id, t))

login(U, email, password, t) ==
  LET rows == {i \in DOMAIN U : U[i].deletedAt = NULL /\ U[i].email = toLowerCase(email)}
  IN  IF rows = {} THEN Err("Invalid Credentials")
      ELSE LET id == CHOOSE i \in rows : TRUE
           IN  IF ~verifyCredentials(password, U[id].password)
               THEN Err("Invalid Credentials")
               ELSE Ok(createToken(id, t))

UserFindOneById(U, id, paranoid) ==
  LET rows == {i \in DOMAIN U : i = id /\ (paranoid => U[i].deletedAt = NULL)}
  IN  IF rows = {} THEN Err("No User Found")
      ELSE Ok([firstName |-> U[id].firstName, lastName |-> U[id].lastName,
               email |-> U[id].email, createdAt |-> U[id].createdAt,
               updatedAt |-> U[id].updatedAt, deletedAt |-> U[id].deletedAt,
               role |-> IF U[id].role \in DOMAIN user_roles
                        THEN user_roles[U[id].role] ELSE "null"])

\* PostgreSQL folds an identifier written without double quotes to lower case
FoldIdentifier(key) ==
  CASE key = "firstName" -> "firstname"
    [] key = "lastName" -> "lastname"
    [] key = "createdAt" -> "createdat"
    [] key = "updatedAt" -> "updatedat"
    [] key = "deletedAt" -> "deletedat"
    [] key = "tokenBlacklistDate" -> "tokenblacklistdate"
    [] OTHER -> key

UserColumns ==
  {"firstName", "lastName", "email", "password", "role",
   "createdAt", "updatedAt", "deletedAt", "tokenBlacklistDate"}

\* INSERT INTO users: the id comes off the sequence, UNIQUE (email) is checked
\* against every row, deleted or not
UserInsert(U, seq, firstName, lastName, email, hash, t) ==
  IF \E i \in DOMAIN U : U[i].email = email
  THEN [out |-> PgErr("23505"), users |-> U]
  ELSE [out |-> Ok(seq),
        users |-> U @@ (seq :> [firstName |-> firstName, lastName |-> lastName,
                                email |-> email, password |-> hash,
                                role |-> DefaultRole,
                                createdAt |-> t, updatedAt |-> t,
                                deletedAt |-> NULL, tokenBlacklistDate |-> NULL])]

register_KeepCase(U, seq, params, t) ==
  IF "password" \notin DOMAIN params
  THEN [out |-> Err("data and salt arguments required"), users |-> U]
  ELSE IF "email" \notin DOMAIN params
  THEN [out |-> Err("TypeError"), users |-> U]
  ELSE
    LET hash == createHash(params.password)
        firstName == IF "firstName" \in DOMAIN params THEN params.firstName ELSE ""
        lastName == IF "lastName" \in DOMAIN params THEN params.lastName ELSE ""
        ins == UserInsert(U, seq, firstName, lastName, params.email, hash, t)
    IN  IF ~ins.out.ok THEN ins
        ELSE [out |-> login(ins.users, params.email, params.password, t),
              users |-> ins.users]

register_RoleFromInput(U, seq, params, t) ==
  IF "password" \notin DOMAIN params
  THEN [out |-> Err("data and salt arguments required"), users |-> U]
  ELSE IF "email" \notin DOMAIN params
  THEN [out |-> Err("TypeError"), users |-> U]
  ELSE
    LET hash == createHash(params.password)
        firstName == IF "firstName" \in DOMAIN params THEN params.firstName ELSE ""
        lastName == IF "lastName" \in DOMAIN params THEN params.lastName ELSE ""
        ins == UserInsert(U, seq, firstName, lastName, toLowerCase(params.email), hash, t)
        role == IF "role" \in DOMAIN params THEN params.role ELSE DefaultRole
    IN  IF ~ins.out.ok THEN ins
        ELSE LET U2 == [ins.users EXCEPT ![seq].role = role]
             IN  [out |-> login(U2, params.email, params.password, t), users |-> U2]

\* register: only email, firstName, lastName and password are taken from the
\* parameter object, the names defaulting to ''. bcrypt.hash rejects a missing
\* password; email.toLowerCase() throws on a missing email, after the hash and
\* before the INSERT. The INSERT names no role, so the column default applies.
\* Then the user is logged in with the email and password as given.
register(U, seq, params, t) ==
  IF "password" \notin DOMAIN params
  THEN [out |-> Err("data and salt arguments required"), users |-> U]
  ELSE IF "email" \notin DOMAIN params
  THEN [out |-> Err("TypeError"), users |-> U]
  ELSE
    LET hash == createHash(params.password)
        firstName == IF "firstName" \in DOMAIN params THEN params.firstName ELSE ""
        lastName == IF "lastName" \in DOMAIN params THEN params.lastName ELSE ""
        ins == UserInsert(U, seq, firstName, lastName, toLowerCase(params.email), hash, t)
    IN  IF ~ins.out.ok THEN ins
        ELSE [out |-> login(ins.users, params.email, params.password, t),
              users |-> ins.users]

UserUpdate_Revoking(U, id, payload, t) ==
  IF ~payload.present
  THEN [out |-> Err("Invalid Update Payload Provided"), users |-> U]
  ELSE
    LET p == payload.fields
        update == [k \in DOMAIN p |->
                     IF k = "password" /\ Truthy(p, k) THEN createHash(p[k])
                     ELSE IF k = "email" /\ Truthy(p, k) THEN toLowerCase(p[k])
                     ELSE p[k]]
        columns == {FoldIdentifier(k) : k \in DOMAIN update}
    IN  IF ~(columns \subseteq UserColumns)
        THEN [out |-> PgErr("42703"), users |-> U]
        ELSE IF id \notin DOMAIN U
        THEN [out |-> Err("No Records Updated"), users |-> U]
        ELSE
          LET row == [c \in DOMAIN U[id] |->
                        IF c \in DOMAIN update THEN update[c]
                        ELSE IF c = "updatedAt" THEN t
                        ELSE IF c = "tokenBlacklistDate" THEN t
                        ELSE U[id][c]]
          IN  IF \E j \in DOMAIN U : j # id /\ U[j].email = row.email
              THEN [out |-> PgErr("23505"), users |-> U]
              ELSE IF row.role \notin DOMAIN user_roles
              THEN [out |-> PgErr("23503"), users |-> U]
              ELSE [out |-> Ok(TRUE), users |-> [U EXCEPT ![id] = row]]

UserUpdate(U, id, payload, t) ==
  IF ~payload.present
  THEN [out |-> Err("Invalid Update Payload Provided"), users |-> U]
  ELSE
    LET p == payload.fields
        update == [k \in DOMAIN p |->
                     IF k = "password" /\ Truthy(p, k) THEN createHash(p[k])
                     ELSE IF k = "email" /\ Truthy(p, k) THEN toLowerCase(p[k])
                     ELSE p[k]]
        columns == {FoldIdentifier(k) : k \in DOMAIN update}
    IN  IF ~(columns \subseteq UserColumns)
        THEN [out |-> PgErr("42703"), users |-> U]
        ELSE IF id \notin DOMAIN U
        THEN [out |-> Err("No Records Updated"), users |-> U]
        ELSE
          LET row == [c \in DOMAIN U[id] |->
                        IF c \in DOMAIN update THEN update[c]
                        ELSE IF c = "updatedAt" THEN t
                        ELSE U[id][c]]
          IN  IF \E j \in DOMAIN U : j # id /\ U[j].email = row.email
              THEN [out |-> PgErr("23505"), users |-> U]
              ELSE IF row.role \notin DOMAIN user_roles
              THEN [out |-> PgErr("23503"), users |-> U]
              ELSE [out |-> Ok(TRUE), users |-> [U EXCEPT ![id] = row]]

ChangeVerify_AnyPassword(U, id, password) ==
  IF id \notin DOMAIN U \/ U[id].deletedAt # NULL THEN Err("Invalid User")
  ELSE Ok(U[id].password)

\* the SELECT that opens changePassword and changeEmail and the check of the
\* supplied password against the hash it read; the answer carries that hash
ChangeVerify(U, id, password) ==
  IF id \notin DOMAIN U \/ U[id].deletedAt # NULL THEN Err("Invalid User")
  ELSE IF ~verifyCredentials(password, U[id].password) THEN Err("Invalid Password")
  ELSE Ok(U[id].password)

\* what changePassword and changeEmail hand to update once the password is good
changePassword(newPassword) == Payload([password |-> newPassword])
changeEmail(email) == Payload([email |-> toLowerCase(email)])

\* UserService.softDelete is called by the DELETE route and is not in the
\* sources; it is the update(id, {deletedAt: now}) the other services have
UserSoftDelete(U, id, t) ==
  IF id \notin DOMAIN U
  THEN [out |-> Err("No Records Updated"), users |-> U]
  ELSE [out |-> Ok(TRUE),
        users |-> [U EXCEPT ![id].deletedAt = t, ![id].updatedAt = t]]

(* ------------------------- Category Service ---------------------------- *)
CategoryColumns == {"id", "name", "description", "createdAt", "updatedAt", "deletedAt"}

\* config.defaultCategories[index] as init inserts it, with id index + 1
DefaultCategory(index) ==
  [name |-> <<"d", <<"p", "q", "r", "s", "t", "u", "v">>[index + 1]>>,
   description |-> "default",
   createdAt |-> 0, updatedAt |-> 0, deletedAt |-> NULL]

\* the rows init leaves in an empty table; the id sequence is not advanced
CategoryInit(n) == [id \in 1..n |-> DefaultCategory(id - 1)]

CiEq_CaseSensitive(a, b) == a = b

\* citext compares without regard to letter case
CiEq(a, b) == toLowerCase(a) = toLowerCase(b)

\* name LIKE '%' || text || '%' on a citext column
Like(name, text) ==
  \E i \in 0..(Len(name) - Len(text)) :
    toLowerCase(SubSeq(name, i + 1, i + Len(text))) = toLowerCase(text)

CategoryCreate(C, seq, payload, t) ==
  IF ~Truthy(payload, "name")
  THEN [out |-> Err("Invalid Create Payload Provided"), categories |-> C, seq |-> seq]
  ELSE
    LET name == payload.name
        description == IF "description" \in DOMAIN payload
                       THEN payload.description ELSE ""
    IN  IF seq \in DOMAIN C \/ \E i \in DOMAIN C : CiEq(C[i].name, name)
        THEN [out |-> PgErr("23505"), categories |-> C, seq |-> seq + 1]
        ELSE [out |-> Ok([id |-> seq, name |-> name, description |-> description]),
              categories |-> C @@ (seq :> [name |-> name, description |-> description,
                                           createdAt |-> t, updatedAt |-> t,
                                           deletedAt |-> NULL]),
              seq |-> seq + 1]

CategoryFindOneById(C, id, paranoid) ==
  LET rows == {i \in DOMAIN C : i = id /\ (paranoid => C[i].deletedAt = NULL)}
  IN  IF rows = {} THEN Err("No Record Found")
      ELSE Ok([id |-> id, name |-> C[id].name, description |-> C[id].description])

RECURSIVE SortAsc(_)
SortAsc(S) ==
  IF S = {} THEN <<>>
  ELSE LET m == CHOOSE x \in S : \A y \in S : x <= y
       IN  <<m>> \o SortAsc(S \ {m})

Reverse(s) == [i \in 1..Len(s) |-> s[Len(s) + 1 - i]]

\* ORDER BY id or -id, then LIMIT and OFFSET, each left out of the query when
\* its value is falsy (null, 0)
OrderAndPage(ids, limit, offset, orderBy) ==
  LET asc == SortAsc(ids)
      ordered == IF orderBy = "-id" THEN Reverse(asc) ELSE asc
      skipped == IF offset # NULL /\ offset # 0
                 THEN SubSeq(ordered, offset + 1, Len(ordered)) ELSE ordered
  IN  IF limit # NULL /\ limit # 0
      THEN SubSeq(skipped, 1, IF limit < Len(skipped) THEN limit ELSE Len(skipped))
      ELSE skipped

CategorySearch_CountPage(C, searchText, paranoid, limit, offset, orderBy) ==
  LET match == {i \in DOMAIN C :
                  /\ (searchText # <<>> => Like(C[i].name, searchText))
                  /\ (paranoid => C[i].deletedAt = NULL)}
      page == OrderAndPage(match, limit, offset, orderBy)
  IN  Ok([categories |-> [k \in DOMAIN page |->
                       [id |-> page[k], name |-> C[page[k]].name,
                        description |-> C[page[k]].description]],
          count |-> Len(page)])

CategorySearch(C, searchText, paranoid, limit, offset, orderBy) ==
  LET match == {i \in DOMAIN C :
                  /\ (searchText # <<>> => Like(C[i].name, searchText))
                  /\ (paranoid => C[i].deletedAt = NULL)}
      page == OrderAndPage(match, limit, offset, orderBy)
  IN  Ok([categories |-> [k \in DOMAIN page |->
                       [id |-> page[k], name |-> C[page[k]].name,
                        description |-> C[page[k]].description]],
          count |-> Cardinality(match)])

CategoryUpdate_Paranoid(C, id, payload, t) ==
  IF ~payload.present
  THEN [out |-> Err("Invalid Update Payload Provided"), categories |-> C]
  ELSE
    LET update == payload.fields
    IN  IF ~(DOMAIN update \subseteq CategoryColumns)
        THEN [out |-> PgErr("42703"), categories |-> C]
        ELSE IF id \notin DOMAIN C \/ C[id].deletedAt # NULL
        THEN [out |-> Err("No Records Updated"), categories |-> C]
        ELSE
          LET row == [c \in DOMAIN C[id] |->
                        IF c \in DOMAIN update THEN update[c]
                        ELSE IF c = "updatedAt" THEN t
                        ELSE C[id][c]]
          IN  IF \E j \in DOMAIN C : j # id /\ CiEq(C[j].name, row.name)
              THEN [out |-> PgErr("23505"), categories |-> C]
              ELSE [out |-> Ok(TRUE), categories |-> [C EXCEPT ![id] = row]]

CategoryUpdate_KeepStamp(C, id, payload, t) ==
  IF ~payload.present
  THEN [out |-> Err("Invalid Update Payload Provided"), categories |-> C]
  ELSE
    LET update == payload.fields
    IN  IF ~(DOMAIN update \subseteq CategoryColumns)
        THEN [out |-> PgErr("42703"), categories |-> C]
        ELSE IF id \notin DOMAIN C
        THEN [out |-> Err("No Records Updated"), categories |-> C]
        ELSE
          LET row == [c \in DOMAIN C[id] |->
                        IF c \in DOMAIN update THEN update[c] ELSE C[id][c]]
          IN  IF \E j \in DOMAIN C : j # id /\ CiEq(C[j].name, row.name)
              THEN [out |-> PgErr("23505"), categories |-> C]
              ELSE [out |-> Ok(TRUE), categories |-> [C EXCEPT ![id] = row]]

CategoryUpdate(C, id, payload, t) ==
  IF ~payload.present
  THEN [out |-> Err("Invalid Update Payload Provided"), categories |-> C]
  ELSE
    LET update == payload.fields
    IN  IF ~(DOMAIN update \subseteq CategoryColumns)
        THEN [out |-> PgErr("42703"), categories |-> C]
        ELSE IF id \notin DOMAIN C
        THEN [out |-> Err("No Records Updated"), categories |-> C]
        ELSE
          LET row == [c \in DOMAIN C[id] |->
                        IF c \in DOMAIN update THEN update[c]
                        ELSE IF c = "updatedAt" THEN t
                        ELSE C[id][c]]
          IN  IF \E j \in DOMAIN C : j # id /\ CiEq(C[j].name, row.name)
              THEN [out |-> PgErr("23505"), categories |-> C]
              ELSE [out |-> Ok(TRUE), categories |-> [C EXCEPT ![id] = row]]

CategorySoftDelete_Purge(C, id, t) ==
  IF id \notin DOMAIN C
  THEN [out |-> Err("No Records Updated"), categories |-> C]
  ELSE [out |-> Ok(TRUE), categories |-> [i \in DOMAIN C \ {id} |-> C[i]]]

CategorySoftDelete(C, id, t) ==
  CategoryUpdate(C, id, Payload([deletedAt |-> t]), t)

(* ---------------------------- Post Service ------------------------------ *)
PostColumns ==
  {"id", "author", "title", "description", "content", "category", "slug",
   "template", "published", "createdAt", "updatedAt", "deletedAt"}

\* a destructured parameter with its default
Default(p, key, default) == IF key \in DOMAIN p THEN p[key] ELSE default

PostCreate(P, G, U, C, seq, payload, t) ==
  IF \/ ~Truthy(payload, "author") \/ ~Truthy(payload, "title")
     \/ ~Truthy(payload, "content") \/ ~Truthy(payload, "category")
     \/ ~Truthy(payload, "slug")
  THEN [out |-> Err("Invalid Create Payload Provided"),
        posts |-> P, tags |-> G, seq |-> seq]
  ELSE
    LET row == [author |-> payload.author, title |-> payload.title,
                description |-> Default(payload, "description", ""),
                content |-> payload.content, category |-> payload.category,
                slug |-> payload.slug,
                template |-> Default(payload, "template", "default"),
                published |-> Default(payload, "published", FALSE),
                createdAt |-> t, updatedAt |-> t, deletedAt |-> NULL]
        tagNames == Default(payload, "tags", <<>>)
    IN  IF seq \in DOMAIN P \/ \E i \in DOMAIN P : CiEq(P[i].slug, row.slug)
        THEN [out |-> PgErr("23505"), posts |-> P, tags |-> G, seq |-> seq + 1]
        ELSE IF row.author \notin DOMAIN U \/ row.category \notin DOMAIN C
        THEN [out |-> PgErr("23503"), posts |-> P, tags |-> G, seq |-> seq + 1]
        ELSE [out |-> Ok([id |-> seq, title |-> row.title,
                          description |-> row.description, content |-> row.content,
                          slug |-> row.slug, template |-> row.template,
                          published |-> row.published]),
              posts |-> P @@ (seq :> row),
              tags |-> G \cup {<<seq, tagNames[k]>> : k \in DOMAIN tagNames},
              seq |-> seq + 1]

\* the columns findOneById and search select, with the two LEFT JOINs
PostProjection(P, U, C, id) ==
  [id |-> id, author |-> P[id].author,
   authorFirstName |-> IF P[id].author \in DOMAIN U
                       THEN U[P[id].author].firstName ELSE "null",
   authorLastName |-> IF P[id].author \in DOMAIN U
                      THEN U[P[id].author].lastName ELSE "null",
   title |-> P[id].title, description |-> P[id].description,
   content |-> P[id].content, slug |-> P[id].slug,
   template |-> P[id].template, published |-> P[id].published,
   category |-> P[id].category,
   categoryName |-> IF P[id].category \in DOMAIN C
                    THEN C[P[id].category].name ELSE <<>>,
   createdAt |-> P[id].createdAt, updatedAt |-> P[id].updatedAt]

PostFindOneById(P, U, C, id, paranoid, published) ==
  LET rows == {i \in DOMAIN P :
                 /\ i = id
                 /\ (paranoid => P[i].deletedAt = NULL)
                 /\ (published => P[i].published = published)}
  IN  IF rows = {} THEN Err("No Record Found")
      ELSE Ok(PostProjection(P, U, C, id))

\* filters: a record of template, category, published, author; a filter that
\* is not given holds NULL (published: its default, true)
PostSearch(P, U, C, filters, paranoid, limit, offset, orderBy) ==
  LET match == {i \in DOMAIN P :
                  /\ (paranoid => P[i].deletedAt = NULL)
                  /\ (filters.template # "" => P[i].template = filters.template)
                  /\ (filters.category # NULL /\ filters.category # 0
                        => P[i].category = filters.category)
                  /\ (filters.published => P[i].published = filters.published)
                  /\ (filters.author # NULL /\ filters.author # 0
                        => P[i].author = filters.author)}
      page == OrderAndPage(match, limit, offset, orderBy)
  IN  Ok([posts |-> [k \in DOMAIN page |-> PostProjection(P, U, C, page[k])],
          count |-> Cardinality(match)])

PostUpdate(P, U, C, id, payload, t) ==
  IF ~payload.present
  THEN [out |-> Err("Invalid Update Payload Provided"), posts |-> P]
  ELSE
    LET update == [k \in DOMAIN payload.fields \ {"tags"} |-> payload.fields[k]]
    IN  IF ~(DOMAIN update \subseteq PostColumns)
        THEN [out |-> PgErr("42703"), posts |-> P]
        ELSE IF id \notin DOMAIN P
        THEN [out |-> Err("No Records Updated"), posts |-> P]
        ELSE
          LET row == [c \in DOMAIN P[id] |->
                        IF c \in DOMAIN update THEN update[c]
                        ELSE IF c = "updatedAt" THEN t
                        ELSE P[id][c]]
          IN  IF \E j \in DOMAIN P : j # id /\ CiEq(P[j].slug, row.slug)
              THEN [out |-> PgErr("23505"), posts |-> P]
              ELSE IF row.author \notin DOMAIN U \/ row.category \notin DOMAIN C
              THEN [out |-> PgErr("23503"), posts |-> P]
              ELSE [out |-> Ok(TRUE), posts |-> [P EXCEPT ![id] = row]]

PostSoftDelete(P, U, C, id, t) ==
  PostUpdate(P, U, C, id, Payload([deletedAt |-> t]), t)

(* --------------------------- Role Authority ---------------------------- *)
\* each answers Ok(boolean) or the error findOneById raised
hasAdminPermissions(U, id) ==
  LET user == UserFindOneById(U, id, TRUE)
  IN  IF ~user.ok THEN user ELSE Ok(user.val.role = "Admin")

hasEditorPermissions_EditorOnly(U, id) ==
  LET user == UserFindOneById(U, id, TRUE)
  IN  IF ~user.ok THEN user ELSE Ok(user.val.role = "Editor")

hasEditorPermissions(U, id) ==
  LET user == UserFindOneById(U, id, TRUE)
  IN  IF ~user.ok THEN user
      ELSE Ok(user.val.role = "Editor" \/ user.val.role = "Admin")

hasAuthorPermissions(U, id) ==
  LET user == UserFindOneById(U, id, TRUE)
  IN  IF ~user.ok THEN user
      ELSE Ok(user.val.role = "Author" \/ user.val.role = "Editor"
              \/ user.val.role = "Admin")

(* ----------------------------- Access Gate ----------------------------- *)
\* the jwt strategy: a request is authenticated when it carries a token that
\* validateToken accepts
Authenticated(U, tok) == tok # NoToken /\ validateToken(U, tok).isValid

\* a middleware hook: it lets the handler run, answers Boom.unauthorized, or
\* fails with what the permission check raised
Gate(permission) ==
  IF ~permission.ok THEN "raised"
  ELSE IF permission.val THEN "approved" ELSE "denied"

MiddlewareHasAdminPermissions_Open(U, id) == "approved"

MiddlewareHasAdminPermissions(U, id) == Gate(hasAdminPermissions(U, id))

MiddlewareHasEditorPermissions(U, id) == Gate(hasEditorPermissions(U, id))

MiddlewareHasAuthorPermissions(U, id) == Gate(hasAuthorPermissions(U, id))

Boom(status) == [ok |-> FALSE, err |-> "Boom", code |-> status]

(* ------------------------------ inputs --------------------------------- *)
Procs == 1..NumProcs
Idle == [pc |-> "idle"]

\* the relations initializeTables creates, in the order it creates them
Relations ==
  <<"user_roles", "users", "categories", "index_categories_full_text", "posts",
    "tags">>

\* a database every statement of the initialization has run on
Initialized ==
  [relations |-> {Relations[k] : k \in DOMAIN Relations}, roles |-> user_roles]
Scopes == {"users", "categories", "posts"}
Emails == {<<"a", "x">>, <<"A", "X">>, <<"b", "x">>}
Passwords == {"p1", "p2"}
\* new passwords a caller of the service may supply: '' is a string too
NewPasswords == Passwords \cup {""}
UserIds == 1..(MaxUserSeq + 1)
CategoryIds == 1..(MaxCatSeq + 1)
PostIds == 1..(MaxPostSeq + 1)
Seconds == 0..(MaxAuthTime \div TicksPerSecond)
Names == {<<"D", "p">>, <<"n">>}

\* a user row as it stands in a database that was in use before this run
SeedUser(role, deletedAt, blacklist) ==
  [firstName |-> "", lastName |-> "", email |-> <<"a", "x">>,
   password |-> createHash("p1"), role |-> role,
   createdAt |-> 0, updatedAt |-> 0,
   deletedAt |-> deletedAt, tokenBlacklistDate |-> blacklist]

\* users tables for the credential engine: no user, or one user in any state
SeedUsers ==
  {NoRows} \cup
  {(1 :> SeedUser(r, d, b)) : r \in DOMAIN user_roles, d \in {NULL, 0},
                              b \in {NULL} \cup 0..(TicksPerSecond - 1)}

\* the users table of the users repository: the administrator
AdminOnly == (1 :> SeedUser(1, NULL, NULL))

\* the users table behind the category and post routes: an Admin, an Author
\* and a Commenter, all active
Callers ==
  [id \in 1..3 |->
     [SeedUser(<<1, 3, 4>>[id], NULL, NULL)
        EXCEPT !.email = <<<<"a", "b", "c">>[id], "x">>]]

\* what a request carries: no token, or the token login issues to a user
Presented(U, t) ==
  {NoToken} \cup {createToken(i, t) : i \in {j \in DOMAIN U : U[j].deletedAt = NULL}}

UserPayloads(t) ==
  {NoPayload, EmptyObject}
  \cup {Payload([email |-> e]) : e \in {<<"A", "X">>, <<"b", "x">>}}
  \cup {Payload([role |-> 1]), Payload([firstName |-> "Rick"]),
        Payload([tokenBlacklistDate |-> t])}

CategoryPayloads ==
  {NoPayload, EmptyObject} \cup {Payload([name |-> n]) : n \in Names}

CategoryCreatePayloads ==
  {<<>>} \cup {[name |-> n] : n \in Names}

PostPayloads ==
  {NoPayload, EmptyObject, Payload([slug |-> <<"S">>]),
   Payload([published |-> TRUE, tags |-> <<"new">>])}

PostCreatePayloads ==
  {[author |-> 2, title |-> "title", content |-> "c", category |-> 1, slug |-> g]
     : g \in {<<"s">>, <<"S">>}}
  \cup {[author |-> 2, title |-> "title", content |-> "c", category |-> 1,
         slug |-> <<"t">>, published |-> TRUE, tags |-> <<"tag", "tag">>],
        [author |-> 2, title |-> "", content |-> "c", category |-> 1,
         slug |-> <<"s">>],
        [author |-> 2, title |-> "title", content |-> "c", category |-> 3,
         slug |-> <<"t">>],
        [author |-> 2, title |-> "title", content |-> "c", category |-> 1]}

\* request payloads that pass the create schema of POST /posts
PostRequestPayloads ==
  {[author |-> 1, title |-> "title", content |-> "c", category |-> 1,
    slug |-> <<"s">>]}

(* ------------------------------ actions -------------------------------- *)
Init ==
  /\ scope \in Scopes
  /\ now = 0
  /\ users = IF scope = "users" THEN AdminOnly ELSE Callers
  /\ userSeq = Cardinality(DOMAIN users) + 1
  /\ categories = CategoryInit(NumDefaultCategories)
  /\ catSeq = 1
  /\ posts = NoRows
  /\ postSeq = 1
  /\ tags = {}
  /\ token = NoToken
  /\ flight = [p \in Procs |-> Idle]
  /\ schema = Initialized
  /\ res = [op |-> "start"]

Tick ==
  /\ scope \in Scopes
  /\ now < MaxTime
  /\ now' = now + 1
  /\ res' = [op |-> "tick"]
  /\ UNCHANGED <<scope, flight, schema, tables, token>>

(* users *)
Login ==
  /\ scope \in {"auth"}
  /\ \E email \in Emails, password \in Passwords :
       LET out == login(users, email, password, now)
       IN  /\ res' = [op |-> "login", email |-> email, password |-> password,
                      out |-> out, held |-> token]
           /\ token' = IF out.ok THEN out.val ELSE token
  /\ UNCHANGED <<scope, flight, schema, now, tables>>

Register ==
  /\ scope \in {"users", "auth"}
  /\ userSeq <= MaxUserSeq
  /\ \E email \in Emails, password \in {"p1"} :
       LET r == register(users, userSeq, [email |-> email, password |-> password], now)
       IN  /\ res' = [op |-> "register", email |-> email, password |-> password,
                      out |-> r.out]
           /\ users' = r.users
           /\ userSeq' = userSeq + 1
           /\ token' = IF r.out.ok THEN r.out.val ELSE token
  /\ UNCHANGED <<scope, flight, schema, now, categoryTables, postTables>>

ValidateToken ==
  /\ scope \in {"auth"}
  /\ \E id \in UserIds, iat \in Seconds :
       res' = [op |-> "validateToken", id |-> id, iat |-> iat,
               out |-> validateToken(users, [id |-> id, iat |-> iat])]
  /\ UNCHANGED <<scope, flight, schema, now, tables, token>>

\* validateToken on any decoded claim set, id or iat missing or not, with the
\* database answering or failing (fault)
ValidateDecoded ==
  /\ scope \in {"auth"}
  /\ \E id \in UserIds \cup {NULL}, iat \in Seconds \cup {NULL}, fault \in BOOLEAN :
       res' = [op |-> "validateDecoded", id |-> id, iat |-> iat, fault |-> fault,
               out |-> IF fault THEN Caught(PgErr("08006"))
                       ELSE validateToken(users, [id |-> id, iat |-> iat])]
  /\ UNCHANGED <<scope, flight, schema, now, tables, token>>

HasPermissions ==
  /\ scope \in {"auth"}
  /\ \E id \in UserIds :
       res' = [op |-> "hasPermissions", id |-> id,
               admin |-> hasAdminPermissions(users, id),
               editor |-> hasEditorPermissions(users, id),
               author |-> hasAuthorPermissions(users, id)]
  /\ UNCHANGED <<scope, flight, schema, now, tables, token>>

UserFind ==
  /\ scope \in {"users"}
  /\ \E id \in UserIds, paranoid \in BOOLEAN :
       res' = [op |-> "findOneById", table |-> "users", id |-> id,
               paranoid |-> paranoid,
               out |-> UserFindOneById(users, id, paranoid)]
  /\ UNCHANGED <<scope, flight, schema, now, tables, token>>

UserUpdateCall ==
  /\ scope \in {"users"}
  /\ \E id \in UserIds, payload \in UserPayloads(now) :
       LET r == UserUpdate(users, id, payload, now)
       IN  /\ res' = [op |-> "update", table |-> "users", id |-> id,
                      payload |-> payload, out |-> r.out]
           /\ users' = r.users
  /\ UNCHANGED <<scope, flight, schema, now, userSeq, categoryTables, postTables, token>>

\* DELETE /users/{id}: jwt authentication, the admin hook, then the handler
UsersDelete ==
  /\ scope \in {"users", "auth", "patch"}
  /\ \E id \in UserIds, presented \in Presented(users, now) \cup {token} :
       LET auth == Authenticated(users, presented)
           gate == IF auth THEN MiddlewareHasAdminPermissions(users, presented.id)
                   ELSE "unauthenticated"
           r == UserSoftDelete(users, id, now)
       IN  /\ res' = [op |-> "route", route |-> "DELETE /users/{id}", id |-> id,
                      caller |-> presented.id, gate |-> gate,
                      out |-> IF ~auth THEN Boom(401)
                              ELSE IF gate = "denied" THEN Boom(401)
                              ELSE IF gate = "raised" THEN Boom(500)
                              ELSE IF r.out.ok THEN Ok(204) ELSE Boom(404)]
           /\ users' = IF gate = "approved" THEN r.users ELSE users
  /\ UNCHANGED <<scope, flight, schema, now, userSeq, categoryTables, postTables, token>>

(* categories *)
CategoryCreateCall ==
  /\ scope \in {"categories", "race"}
  /\ catSeq <= MaxCatSeq
  /\ \E payload \in CategoryCreatePayloads :
       LET r == CategoryCreate(categories, catSeq, payload, now)
       IN  /\ res' = [op |-> "create", table |-> "categories", payload |-> payload,
                      out |-> r.out]
           /\ categories' = r.categories
           /\ catSeq' = r.seq
  /\ UNCHANGED <<scope, flight, schema, now, userTables, postTables, token>>

\* POST /categories: jwt authentication, the admin hook, then the handler
CategoriesPost ==
  /\ scope \in {"categories"}
  /\ catSeq <= MaxCatSeq
  /\ \E payload \in CategoryCreatePayloads \ {<<>>}, presented \in Presented(users, now) :
       LET auth == Authenticated(users, presented)
           gate == IF auth THEN MiddlewareHasAdminPermissions(users, presented.id)
                   ELSE "unauthenticated"
           r == CategoryCreate(categories, catSeq, payload, now)
       IN  /\ res' = [op |-> "route", route |-> "POST /categories",
                      payload |-> payload, caller |-> presented.id,
                      gate |-> gate,
                      out |-> IF ~auth THEN Boom(401)
                              ELSE IF gate = "denied" THEN Boom(401)
                              ELSE IF gate = "raised" THEN Boom(500)
                              ELSE IF r.out.ok THEN r.out
                              ELSE IF r.out.code = "23505" THEN Boom(403)
                              ELSE Boom(500)]
           /\ categories' = IF gate = "approved" THEN r.categories ELSE categories
           /\ catSeq' = IF gate = "approved" THEN r.seq ELSE catSeq
  /\ UNCHANGED <<scope, flight, schema, now, userTables, postTables, token>>

CategoryFind ==
  /\ scope \in {"categories"}
  /\ \E id \in CategoryIds, paranoid \in BOOLEAN :
       res' = [op |-> "findOneById", table |-> "categories", id |-> id,
               paranoid |-> paranoid,
               out |-> CategoryFindOneById(categories, id, paranoid)]
  /\ UNCHANGED <<scope, flight, schema, now, tables, token>>

CategoryUpdateCall ==
  /\ scope \in {"categories", "race"}
  /\ \E id \in CategoryIds, payload \in CategoryPayloads :
       LET r == CategoryUpdate(categories, id, payload, now)
       IN  /\ res' = [op |-> "update", table |-> "categories", id |-> id,
                      payload |-> payload, out |-> r.out]
           /\ categories' = r.categories
  /\ UNCHANGED <<scope, flight, schema, now, userTables, catSeq, postTables, token>>

CategorySoftDeleteCall ==
  /\ scope \in {"categories", "race"}
  /\ \E id \in CategoryIds :
       LET r == CategorySoftDelete(categories, id, now)
       IN  /\ res' = [op |-> "softDelete", table |-> "categories", id |-> id,
                      out |-> r.out]
           /\ categories' = r.categories
  /\ UNCHANGED <<scope, flight, schema, now, userTables, catSeq, postTables, token>>

(* posts *)
PostCreateCall ==
  /\ scope \in {"posts"}
  /\ postSeq <= MaxPostSeq
  /\ \E payload \in PostCreatePayloads :
       LET r == PostCreate(posts, tags, users, categories, postSeq, payload, now)
       IN  /\ res' = [op |-> "create", table |-> "posts", payload |-> payload,
                      out |-> r.out]
           /\ posts' = r.posts
           /\ tags' = r.tags
           /\ postSeq' = r.seq
  /\ UNCHANGED <<scope, flight, schema, now, userTables, categoryTables, token>>

\* POST /posts: the author gate, then the handler, which lets only an editor
\* name another user as the author
PostsPostPayload_Trusting(request, userId, isEditor) ==
  IF "author" \in DOMAIN request THEN request
  ELSE [k \in DOMAIN request \cup {"author"} |->
          IF k = "author" THEN userId ELSE request[k]]

\* the payload the POST handler hands to create: {author: userId, ...payload},
\* and author set to the caller again when the caller is no editor
PostsPostPayload(request, userId, isEditor) ==
  IF isEditor /\ "author" \in DOMAIN request THEN request
  ELSE [k \in DOMAIN request \cup {"author"} |->
          IF k = "author" THEN userId ELSE request[k]]

PostsPost ==
  /\ scope \in {"posts", "postroutes"}
  /\ postSeq <= MaxPostSeq
  /\ \E request \in PostRequestPayloads, presented \in Presented(users, now) :
       LET auth == Authenticated(users, presented)
           gate == IF auth THEN MiddlewareHasAuthorPermissions(users, presented.id)
                   ELSE "unauthenticated"
           userId == presented.id
           editor == hasEditorPermissions(users, userId)
           payload == PostsPostPayload(request, userId, editor.ok /\ editor.val)
           r == PostCreate(posts, tags, users, categories, postSeq, payload, now)
           handled == gate = "approved" /\ editor.ok
       IN  /\ res' = [op |-> "route", route |-> "POST /posts",
                      payload |-> request, caller |-> presented.id,
                      gate |-> gate,
                      out |-> IF ~auth THEN Boom(401)
                              ELSE IF gate = "denied" THEN Boom(401)
                              ELSE IF gate = "raised" THEN Boom(500)
                              ELSE IF ~editor.ok THEN Boom(500)
                              ELSE IF r.out.ok THEN r.out
                              ELSE IF r.out.code = "23505" THEN Boom(403)
                              ELSE Boom(500)]
           /\ posts' = IF handled THEN r.posts ELSE posts
           /\ tags' = IF handled THEN r.tags ELSE tags
           /\ postSeq' = IF handled THEN r.seq ELSE postSeq
  /\ UNCHANGED <<scope, flight, schema, now, userTables, categoryTables, token>>

PostFind ==
  /\ scope \in {"posts"}
  /\ \E id \in PostIds, paranoid \in BOOLEAN, published \in BOOLEAN :
       res' = [op |-> "findOneById", table |-> "posts", id |-> id,
               paranoid |-> paranoid, published |-> published,
               out |-> PostFindOneById(posts, users, categories, id, paranoid,
                                       published)]
  /\ UNCHANGED <<scope, flight, schema, now, tables, token>>

PostUpdateCall ==
  /\ scope \in {"posts"}
  /\ \E id \in PostIds, payload \in PostPayloads :
       LET r == PostUpdate(posts, users, categories, id, payload, now)
       IN  /\ res' = [op |-> "update", table |-> "posts", id |-> id,
                      payload |-> payload, out |-> r.out]
           /\ posts' = r.posts
  /\ UNCHANGED <<scope, flight, schema, now, userTables, categoryTables, postSeq, tags, token>>

PostSoftDeleteCall ==
  /\ scope \in {"posts"}
  /\ \E id \in PostIds :
       LET r == PostSoftDelete(posts, users, categories, id, now)
       IN  /\ res' = [op |-> "softDelete", table |-> "posts", id |-> id,
                      out |-> r.out]
           /\ posts' = r.posts
  /\ UNCHANGED <<scope, flight, schema, now, userTables, categoryTables, postSeq, tags, token>>

\* GET /posts: authentication is optional; the handler asks for unpublished
\* posts only on behalf of a caller with author permissions
PostsGet ==
  /\ scope \in {"posts"}
  /\ \E presented \in Presented(users, now), published \in BOOLEAN :
       LET credentials == IF Authenticated(users, presented) THEN presented ELSE NoToken
           permission == IF credentials # NoToken
                         THEN hasAuthorPermissions(users, credentials.id)
                         ELSE Ok(FALSE)
           canViewUnpublishedPosts == permission.ok /\ permission.val
           filters == [template |-> "", category |-> NULL,
                       published |-> IF canViewUnpublishedPosts THEN published ELSE TRUE,
                       author |-> NULL]
           r == PostSearch(posts, users, categories, filters, TRUE, NULL, 0, "id")
       IN  res' = [op |-> "route", route |-> "GET /posts", caller |-> credentials.id,
                   published |-> published,
                   out |-> IF presented # NoToken /\ credentials = NoToken THEN Boom(401)
                           ELSE IF ~permission.ok THEN Boom(500)
                           ELSE Ok(r.val.posts)]
  /\ UNCHANGED <<scope, flight, schema, now, tables, token>>

\* GET /posts/{id}: the route is configured with auth: false, so the request
\* carries no credentials whatever token was sent
PostsGetById ==
  /\ scope \in {"posts"}
  /\ \E presented \in Presented(users, now), id \in PostIds :
       LET credentials == NoToken
           permission == IF credentials # NoToken
                         THEN hasAuthorPermissions(users, credentials.id)
                         ELSE Ok(FALSE)
           canViewUnpublishedPosts == permission.ok /\ permission.val
           r == PostFindOneById(posts, users, categories, id, TRUE,
                                canViewUnpublishedPosts)
       IN  res' = [op |-> "route", route |-> "GET /posts/{id}",
                   caller |-> presented.id, id |-> id,
                   out |-> IF ~permission.ok \/ ~r.ok THEN Boom(404) ELSE r]
  /\ UNCHANGED <<scope, flight, schema, now, tables, token>>

Next ==
  \/ Tick
  \/ Register \/ UserFind \/ UserUpdateCall \/ UsersDelete
  \/ CategoryCreateCall \/ CategoriesPost \/ CategoryFind \/ CategoryUpdateCall
  \/ CategorySoftDeleteCall
  \/ PostCreateCall \/ PostsPost \/ PostFind \/ PostUpdateCall \/ PostSoftDeleteCall
  \/ PostsGet \/ PostsGetById

Spec == Init /\ [][Next]_vars

(* The credential engine and the role authority over a users table in any    *)
(* state: with and without a blacklist date, soft-deleted or not.            *)
InitAuth ==
  /\ scope = "auth"
  /\ now = TicksPerSecond - 1
  /\ users \in SeedUsers
  /\ userSeq = Cardinality(DOMAIN users) + 1
  /\ categories = CategoryInit(NumDefaultCategories)
  /\ catSeq = 1
  /\ posts = NoRows
  /\ postSeq = 1
  /\ tags = {}
  /\ token = NoToken
  /\ flight = [p \in Procs |-> Idle]
  /\ schema = Initialized
  /\ res = [op |-> "start"]

AuthTick ==
  /\ scope \in {"auth"}
  /\ now < MaxAuthTime
  /\ now' = now + 1
  /\ res' = [op |-> "tick"]
  /\ UNCHANGED <<scope, flight, schema, tables, token>>

NextAuth ==
  \/ AuthTick \/ Register \/ Login \/ ValidateToken \/ ValidateDecoded
  \/ HasPermissions \/ UsersDelete

SpecAuth == InitAuth /\ [][NextAuth]_vars
(* The search operations over tables of SearchRows rows, any of them         *)
(* soft-deleted, the posts published or not.                                 *)
InitSearch ==
  /\ scope = "search"
  /\ now = 0
  /\ users = Callers
  /\ userSeq = Cardinality(DOMAIN users) + 1
  /\ \E deleted \in SUBSET (1..SearchRows),
        published \in {{}, 1..2, 1..SearchRows} :
       /\ categories = [id \in 1..SearchRows |->
                          [DefaultCategory(id - 1) EXCEPT
                             !.deletedAt = IF id \in deleted THEN 0 ELSE NULL]]
       /\ posts = [id \in 1..SearchRows |->
                     [author |-> IF id = 1 THEN 1 ELSE 2, title |-> "title",
                      description |-> "", content |-> "c", category |-> 1,
                      slug |-> <<"s", DefaultCategory(id - 1).name[2]>>,
                      template |-> "default", published |-> id \in published,
                      createdAt |-> 0, updatedAt |-> 0,
                      deletedAt |-> IF id \in deleted THEN 0 ELSE NULL]]
  /\ catSeq = 1
  /\ postSeq = SearchRows + 1
  /\ tags = {}
  /\ token = NoToken
  /\ flight = [p \in Procs |-> Idle]
  /\ schema = Initialized
  /\ res = [op |-> "start"]

\* a search reads and changes nothing, so one search per table state shows
\* all there is to see: the search actions run from the drawn tables
Limits == {NULL, 0, 2}
Offsets == {0, 1}
Orders == {"id", "-id"}

CategorySearchCall ==
  /\ scope \in {"search"}
  /\ res.op = "start"
  /\ \E searchText \in {<<>>, <<"D">>, <<"q">>}, paranoid \in BOOLEAN,
        limit \in Limits, offset \in Offsets, orderBy \in Orders :
       res' = [op |-> "search", table |-> "categories", searchText |-> searchText,
               paranoid |-> paranoid, limit |-> limit, offset |-> offset,
               orderBy |-> orderBy,
               out |-> CategorySearch(categories, searchText, paranoid, limit,
                                      offset, orderBy)]
  /\ UNCHANGED <<scope, flight, schema, now, tables, token>>

PostSearchCall ==
  /\ scope \in {"search"}
  /\ res.op = "start"
  /\ \E published \in BOOLEAN, author \in {NULL, 2}, paranoid \in BOOLEAN,
        limit \in Limits, offset \in Offsets, orderBy \in Orders :
       LET filters == [template |-> "", category |-> NULL,
                       published |-> published, author |-> author]
       IN  res' = [op |-> "search", table |-> "posts", filters |-> filters,
                   paranoid |-> paranoid, limit |-> limit, offset |-> offset,
                   orderBy |-> orderBy,
                   out |-> PostSearch(posts, users, categories, filters, paranoid,
                                      limit, offset, orderBy)]
  /\ UNCHANGED <<scope, flight, schema, now, tables, token>>

NextSearch == CategorySearchCall \/ PostSearchCall

SpecSearch == InitSearch /\ [][NextSearch]_vars

(* changePassword and changeEmail as the server runs them: each call is a   *)
(* SELECT with the password check, then an UPDATE, and the calls of several  *)
(* requests interleave between the two.                                      *)
ChangeEmails == Emails \cup {<<"N", "x">>}

InitChange ==
  /\ scope = "change"
  /\ now = 0
  /\ \E deletedAt \in {NULL, 0} :
       users = (1 :> SeedUser(DefaultRole, deletedAt, NULL))
               @@ (2 :> [SeedUser(DefaultRole, NULL, NULL) EXCEPT !.email = <<"b", "x">>])
  /\ userSeq = 3
  /\ categories = CategoryInit(NumDefaultCategories)
  /\ catSeq = 1
  /\ posts = NoRows
  /\ postSeq = 1
  /\ tags = {}
  /\ token = NoToken
  /\ flight = [p \in Procs |-> Idle]
  /\ schema = Initialized
  /\ res = [op |-> "start"]

ChangeTick ==
  /\ scope \in {"change"}
  /\ now < MaxTime
  /\ now' = now + 1
  /\ res' = [op |-> "tick"]
  /\ UNCHANGED <<scope, flight, schema, tables, token>>

\* the first half of a call: up to the password check
ChangeBegin ==
  /\ scope \in {"change"}
  /\ \E p \in Procs, id \in {1, 3}, password \in Passwords,
        op \in {"changePassword", "changeEmail"} :
       \E payload \in IF op = "changePassword"
                      THEN {changePassword(n) : n \in NewPasswords}
                      ELSE {changeEmail(e) : e \in ChangeEmails} :
         LET v == ChangeVerify(users, id, password)
         IN  /\ flight[p] = Idle
             /\ flight' = [flight EXCEPT ![p] =
                             IF v.ok
                             THEN [pc |-> "update", op |-> op, id |-> id,
                                   password |-> password, verified |-> v.val,
                                   payload |-> payload]
                             ELSE Idle]
             /\ res' = [op |-> op, step |-> "verify", proc |-> p, id |-> id,
                        password |-> password, payload |-> payload, out |-> v]
  /\ UNCHANGED <<scope, schema, now, tables, token>>

\* the second half: the update
ChangeFinish ==
  /\ scope \in {"change"}
  /\ \E p \in Procs :
       /\ flight[p].pc = "update"
       /\ LET c == flight[p]
              r == UserUpdate(users, c.id, c.payload, now)
          IN  /\ users' = r.users
              /\ flight' = [flight EXCEPT ![p] = Idle]
              /\ res' = [op |-> c.op, step |-> "update", proc |-> p, id |-> c.id,
                         password |-> c.password, verified |-> c.verified,
                         payload |-> c.payload, out |-> r.out]
  /\ UNCHANGED <<scope, schema, now, userSeq, categoryTables, postTables, token>>

NextChange == ChangeTick \/ ChangeBegin \/ ChangeFinish

SpecChange == InitChange /\ [][NextChange]_vars

(* The table initialization as the booting processes of a cluster run it,   *)
(* statement by statement, on one database that starts empty.                *)
InitStatement(kind, relation, n) == [kind |-> kind, relation |-> relation, n |-> n]

\* the statements of one run, in the order the run awaits them (the inserts
\* of the default categories are issued together; they are taken in index
\* order)
InitStatements ==
  <<InitStatement("create", "user_roles", 0)>>
  \o [id \in DOMAIN user_roles |-> InitStatement("role", "user_roles", id)]
  \o <<InitStatement("create", "users", 0), InitStatement("create", "categories", 0)>>
  \o [k \in 1..NumDefaultCategories |-> InitStatement("category", "categories", k - 1)]
  \o <<InitStatement("create", "index_categories_full_text", 0),
       InitStatement("create", "posts", 0), InitStatement("create", "tags", 0)>>

\* INSERT INTO user_roles(id, name) ... ON CONFLICT DO NOTHING
InsertRole(roles, id) ==
  IF id \in DOMAIN roles \/ \E j \in DOMAIN roles : roles[j] = user_roles[id]
  THEN roles ELSE roles @@ (id :> user_roles[id])

\* INSERT INTO categories(id, name, description) ... ON CONFLICT DO NOTHING
InsertDefaultCategory(C, index, t) ==
  IF (index + 1) \in DOMAIN C
     \/ \E j \in DOMAIN C : CiEq(C[j].name, DefaultCategory(index).name)
  THEN C
  ELSE C @@ ((index + 1) :> [DefaultCategory(index) EXCEPT
                               !.createdAt = t, !.updatedAt = t])

InitInit ==
  /\ scope = "init"
  /\ now = 0
  /\ users = NoRows
  /\ userSeq = 1
  /\ categories = NoRows
  /\ catSeq = 1
  /\ posts = NoRows
  /\ postSeq = 1
  /\ tags = {}
  /\ token = NoToken
  /\ flight = [p \in Procs |-> Idle]
  /\ schema = [relations |-> {}, roles |-> <<>>]
  /\ res = [op |-> "start"]

\* a process boots, or is started again after it ended
InitStart ==
  /\ scope \in {"init"}
  /\ \E p \in Procs :
       LET run == IF flight[p] = Idle THEN 1 ELSE flight[p].run + 1
       IN  /\ flight[p].pc \in {"idle", "done", "failed"}
           /\ run <= MaxRuns
           /\ flight' = [flight EXCEPT ![p] =
                           [pc |-> "init", run |-> run, at |-> 1, creating |-> FALSE]]
           /\ res' = [op |-> "init", proc |-> p, statement |-> "start",
                      out |-> Ok(TRUE)]
  /\ UNCHANGED <<scope, schema, now, tables, token>>

\* the next statement of a run. CREATE ... IF NOT EXISTS looks the relation
\* up and creates it when the lookup found none: the two are not one atomic
\* step in PostgreSQL, and a relation that another session created in between
\* makes the creation fail on the catalog's unique index (23505)
InitStep ==
  /\ scope \in {"init"}
  /\ \E p \in Procs :
       /\ flight[p].pc = "init"
       /\ LET c == flight[p]
              st == InitStatements[c.at]
              advanced == IF c.at = Len(InitStatements)
                          THEN [pc |-> "done", run |-> c.run]
                          ELSE [c EXCEPT !.at = c.at + 1, !.creating = FALSE]
              exists == st.relation \in schema.relations
              raced == st.kind = "create" /\ c.creating /\ exists
              creates == st.kind = "create" /\ c.creating /\ ~exists
              looks == st.kind = "create" /\ ~c.creating /\ ~exists
          IN  /\ flight' = [flight EXCEPT ![p] =
                              IF raced THEN [pc |-> "failed", run |-> c.run]
                              ELSE IF looks THEN [c EXCEPT !.creating = TRUE]
                              ELSE advanced]
              /\ schema' = [relations |-> IF creates
                                          THEN schema.relations \cup {st.relation}
                                          ELSE schema.relations,
                            roles |-> IF st.kind = "role"
                                      THEN InsertRole(schema.roles, st.n)
                                      ELSE schema.roles]
              /\ categories' = IF st.kind = "category"
                               THEN InsertDefaultCategory(categories, st.n, now)
                               ELSE categories
              /\ res' = [op |-> "init", proc |-> p, statement |-> st,
                         out |-> IF raced THEN PgErr("23505") ELSE Ok(TRUE)]
  /\ UNCHANGED <<scope, now, userTables, catSeq, postTables, token>>

\* a request that a process serves once its initialization is over
InitCategoryCreate ==
  /\ scope \in {"init"}
  /\ \E p \in Procs : flight[p].pc = "done"
  /\ catSeq <= NumDefaultCategories + 1
  /\ \E payload \in CategoryCreatePayloads \ {<<>>} :
       LET r == CategoryCreate(categories, catSeq, payload, now)
       IN  /\ res' = [op |-> "create", table |-> "categories", payload |-> payload,
                      out |-> r.out]
           /\ categories' = r.categories
           /\ catSeq' = r.seq
  /\ UNCHANGED <<scope, flight, schema, now, userTables, postTables, token>>

NextInit == InitStart \/ InitStep \/ InitCategoryCreate

SpecInit == InitInit /\ [][NextInit]_vars

\* ---------------------------------------------------------------------------
\* Registration: register called with any parameter object
\* ---------------------------------------------------------------------------

\* parameter objects of register calls: well formed ones, ones carrying fields
\* register does not read (role, id, deletedAt), and ones lacking email or
\* password
RegisterParams ==
  { [email |-> <<"a", "x">>, password |-> "p1"],
    [email |-> <<"A", "X">>, password |-> "p1", firstName |-> "F"],
    [email |-> <<"b", "x">>, password |-> "p2", role |-> 1, id |-> 1, deletedAt |-> 0],
    [email |-> <<"b", "x">>],
    [password |-> "p1"],
    [firstName |-> "F"] }

InitRegister ==
  /\ scope = "register"
  /\ now = TicksPerSecond - 1
  /\ users \in {NoRows, AdminOnly}
  /\ userSeq = Cardinality(DOMAIN users) + 1
  /\ categories = CategoryInit(NumDefaultCategories)
  /\ catSeq = 1
  /\ posts = NoRows
  /\ postSeq = 1
  /\ tags = {}
  /\ token = NoToken
  /\ flight = [p \in Procs |-> Idle]
  /\ schema = Initialized
  /\ res = [op |-> "start"]

RegisterTick ==
  /\ scope \in {"register"}
  /\ now < MaxAuthTime
  /\ now' = now + 1
  /\ res' = [op |-> "tick"]
  /\ UNCHANGED <<scope, flight, schema, tables, token>>

\* register(params); the INSERT, once issued, takes a value of the id sequence
\* whether it succeeds or not
RegisterCall ==
  /\ scope \in {"register"}
  /\ userSeq <= MaxUserSeq + 1
  /\ \E params \in RegisterParams :
       LET r == register(users, userSeq, params, now)
           inserting == {"email", "password"} \subseteq DOMAIN params
       IN  /\ res' = [op |-> "register", params |-> params, out |-> r.out]
           /\ users' = r.users
           /\ userSeq' = IF inserting THEN userSeq + 1 ELSE userSeq
           /\ token' = IF r.out.ok THEN r.out.val ELSE token
  /\ UNCHANGED <<scope, flight, schema, now, categoryTables, postTables>>

\* the token the last successful register returned is presented
RegisterValidate ==
  /\ scope \in {"register"}
  /\ token # NoToken
  /\ res' = [op |-> "validateToken", id |-> token.id, iat |-> token.iat,
             out |-> validateToken(users, token)]
  /\ UNCHANGED <<scope, flight, schema, now, tables, token>>

NextRegister == RegisterTick \/ RegisterCall \/ RegisterValidate

SpecRegister == InitRegister /\ [][NextRegister]_vars

\* ---------------------------------------------------------------------------
\* Every operation that writes a row, of the three repositories, of the
\* password and email changes and of registration, in one specification
\* ---------------------------------------------------------------------------
InitRows == Init \/ InitChange \/ InitRegister

NextRows ==
  \/ Tick
  \/ Register \/ UserFind \/ UserUpdateCall \/ UsersDelete
  \/ CategoryCreateCall \/ CategoriesPost \/ CategoryFind \/ CategoryUpdateCall
  \/ CategorySoftDeleteCall
  \/ PostCreateCall \/ PostsPost \/ PostFind \/ PostUpdateCall \/ PostSoftDeleteCall
  \/ PostsGet \/ PostsGetById
  \/ ChangeTick \/ ChangeBegin \/ ChangeFinish
  \/ RegisterTick \/ RegisterCall \/ RegisterValidate

SpecRows == InitRows /\ [][NextRows]_vars

\* ---------------------------------------------------------------------------
\* Post create statement by statement: the INSERT of the post row, then one
\* INSERT per requested tag, issued together (Promise.all) and completing in
\* any order; any of them may be refused, and the process may stop anywhere
\* ---------------------------------------------------------------------------
InsertTag_NoConflictClause(G, post, name) ==
  IF <<post, name>> \in G
  THEN [out |-> PgErr("23505"), tags |-> G]
  ELSE [out |-> Ok(1), tags |-> G \cup {<<post, name>>}]

\* INSERT INTO tags(post, name) VALUES($1, $2) ON CONFLICT DO NOTHING
InsertTag(G, post, name) ==
  IF <<post, name>> \in G
  THEN [out |-> Ok(0), tags |-> G]
  ELSE [out |-> Ok(1), tags |-> G \cup {<<post, name>>}]

TagLists == {<<>>, <<"a", "a">>, <<"a", "b">>}

TagCreatePayloads ==
  {[author |-> 2, title |-> "title", content |-> "c", category |-> 1,
    slug |-> g, tags |-> n] : g \in {<<"s">>, <<"t">>}, n \in TagLists}

InitTags ==
  /\ scope = "tags"
  /\ now = 0
  /\ users = Callers
  /\ userSeq = Cardinality(DOMAIN users) + 1
  /\ categories = CategoryInit(NumDefaultCategories)
  /\ catSeq = 1
  /\ posts = NoRows
  /\ postSeq = 1
  /\ tags = {}
  /\ token = NoToken
  /\ flight = [p \in Procs |-> Idle]
  /\ schema = Initialized
  /\ res = [op |-> "start"]

\* create up to the INSERT of the post row; with tags to insert the call goes
\* on, without any it returns the row
TagsCreateBegin ==
  /\ scope \in {"tags"}
  /\ postSeq <= MaxPostSeq
  /\ \E p \in Procs, payload \in TagCreatePayloads :
       LET row == [k \in DOMAIN payload \ {"tags"} |-> payload[k]]
           r == PostCreate(posts, tags, users, categories, postSeq, row, now)
           names == payload.tags
       IN  /\ flight[p] = Idle
           /\ posts' = r.posts
           /\ postSeq' = r.seq
           /\ flight' = [flight EXCEPT ![p] =
                           IF r.out.ok /\ names # <<>>
                           THEN [pc |-> "tags", post |-> r.out.val.id, names |-> names,
                                 pending |-> DOMAIN names, failed |-> FALSE,
                                 row |-> r.out]
                           ELSE Idle]
           /\ res' = [op |-> "create", step |-> "post", proc |-> p,
                      post |-> IF r.out.ok THEN r.out.val.id ELSE NULL,
                      names |-> names, returned |-> ~r.out.ok \/ names = <<>>,
                      out |-> r.out]
  /\ UNCHANGED <<scope, schema, now, userTables, categoryTables, tags, token>>

\* one of the tag INSERTs completes, or is refused (fault: the connection is
\* lost); Promise.all rejects on the first refusal and create throws then,
\* while the INSERTs already issued still complete; create returns the row
\* when all of them have completed
TagsInsert ==
  /\ scope \in {"tags"}
  /\ \E p \in Procs :
       /\ flight[p].pc = "tags"
       /\ \E k \in flight[p].pending, fault \in BOOLEAN :
            LET c == flight[p]
                r == IF fault THEN [out |-> PgErr("08006"), tags |-> tags]
                     ELSE InsertTag(tags, c.post, c.names[k])
                pending == c.pending \ {k}
                failed == c.failed \/ ~r.out.ok
                throws == ~c.failed /\ ~r.out.ok
                returns == ~failed /\ pending = {}
            IN  /\ tags' = r.tags
                /\ flight' = [flight EXCEPT ![p] =
                                IF pending = {} THEN Idle
                                ELSE [c EXCEPT !.pending = pending, !.failed = failed]]
                /\ res' = [op |-> "create", step |-> "tag", proc |-> p,
                           post |-> c.post, names |-> c.names, fault |-> fault,
                           returned |-> throws \/ returns,
                           out |-> IF throws THEN r.out
                                   ELSE IF returns THEN c.row
                                   ELSE Ok(NULL)]
  /\ UNCHANGED <<scope, schema, now, userTables, categoryTables, posts, postSeq, token>>

\* the process stops between two statements: the INSERTs not yet completed
\* are lost
TagsCrash ==
  /\ scope \in {"tags"}
  /\ \E p \in Procs :
       /\ flight[p].pc = "tags"
       /\ flight' = [flight EXCEPT ![p] = Idle]
       /\ res' = [op |-> "create", step |-> "crash", proc |-> p,
                  post |-> flight[p].post, names |-> flight[p].names,
                  returned |-> FALSE, out |-> Ok(NULL)]
  /\ UNCHANGED <<scope, schema, now, tables, token>>

NextTags == TagsCreateBegin \/ TagsInsert \/ TagsCrash

SpecTags == InitTags /\ [][NextTags]_vars

\* ---------------------------------------------------------------------------
\* PATCH /users/{id}
\* ---------------------------------------------------------------------------
PatchPayload_KeepAll(payload, admin) == payload

\* the payload the handler hands to update: for a caller who is no admin the
\* keys role, email and password are deleted from it
PatchPayload(payload, admin) ==
  IF admin THEN payload
  ELSE Payload([k \in DOMAIN payload.fields \ {"role", "email", "password"} |->
                  payload.fields[k]])

\* request payloads that pass the update schema of the users routes
PatchRequests ==
  {EmptyObject, Payload([role |-> 1]), Payload([firstName |-> "Rick"]),
   Payload([role |-> 3, email |-> <<"d", "x">>, password |-> "p2"])}

InitPatch ==
  /\ scope = "patch"
  /\ now = TicksPerSecond - 1
  /\ users = Callers
  /\ userSeq = Cardinality(DOMAIN users) + 1
  /\ categories = CategoryInit(NumDefaultCategories)
  /\ catSeq = 1
  /\ posts = NoRows
  /\ postSeq = 1
  /\ tags = {}
  /\ token = NoToken
  /\ flight = [p \in Procs |-> Idle]
  /\ schema = Initialized
  /\ res = [op |-> "start"]

\* the handler: the caller's admin permission is looked up (a failure of the
\* lookup is caught and answered 404), a caller who is no admin is refused
\* for any row but their own, and the update runs with the payload left
UsersPatch ==
  /\ scope \in {"patch"}
  /\ \E id \in UserIds, presented \in Presented(users, now), request \in PatchRequests :
       LET auth == Authenticated(users, presented)
           userId == presented.id
           admin == IF auth THEN hasAdminPermissions(users, userId)
                    ELSE Err("unauthenticated")
           forbidden == admin.ok /\ ~admin.val /\ id # userId
           handled == auth /\ admin.ok /\ ~forbidden
           r == IF handled
                THEN UserUpdate(users, id, PatchPayload(request, admin.val), now)
                ELSE [out |-> Boom(403), users |-> users]
       IN  /\ res' = [op |-> "route", route |-> "PATCH /users/{id}", id |-> id,
                      caller |-> userId, payload |-> request,
                      gate |-> IF ~auth THEN "unauthenticated"
                               ELSE IF ~admin.ok THEN "raised"
                               ELSE IF forbidden THEN "denied" ELSE "approved",
                      out |-> IF ~auth THEN Boom(401)
                              ELSE IF ~admin.ok THEN Boom(404)
                              ELSE IF forbidden THEN Boom(403)
                              ELSE IF r.out.ok THEN Ok(204)
                              ELSE IF r.out.code = "23505" THEN Boom(403)
                              ELSE Boom(404)]
           /\ users' = r.users
  /\ UNCHANGED <<scope, flight, schema, now, userSeq, categoryTables, postTables, token>>

NextPatch == UsersPatch \/ UsersDelete

SpecPatch == InitPatch /\ [][NextPatch]_vars

\* ---------------------------------------------------------------------------
\* POST /posts and PATCH /posts/{id}
\* ---------------------------------------------------------------------------

\* request payloads that pass the update schema of the posts routes
PostPatchRequests ==
  {Payload([author |-> 3]), Payload([author |-> 1, published |-> TRUE]),
   Payload([published |-> TRUE])}

\* the PATCH handler, the admin gate passed: a caller who is no editor loses
\* the author key, and is answered 404 unless findOneById (published posts
\* that are not deleted) finds the post and it is the caller's own; a failure
\* of a lookup is caught and answered 404
PostsPatchHandler(P, U, C, id, userId, request, t) ==
  LET editor == hasEditorPermissions(U, userId)
      isEditor == editor.ok /\ editor.val
      payload == IF isEditor THEN request
                 ELSE Payload([k \in DOMAIN request.fields \ {"author"} |->
                                 request.fields[k]])
      post == PostFindOneById(P, U, C, id, TRUE, TRUE)
      r == PostUpdate(P, U, C, id, payload, t)
  IN  IF ~editor.ok THEN [out |-> Boom(404), posts |-> P]
      ELSE IF ~isEditor /\ ~post.ok THEN [out |-> Boom(404), posts |-> P]
      ELSE IF ~isEditor /\ post.val.author # userId
      THEN [out |-> Boom(404), posts |-> P]
      ELSE IF r.out.ok THEN [out |-> Ok(204), posts |-> r.posts]
      ELSE IF r.out.code = "23505" THEN [out |-> Boom(403), posts |-> P]
      ELSE [out |-> Boom(404), posts |-> P]

InitPostRoutes ==
  /\ scope = "postroutes"
  /\ now = TicksPerSecond - 1
  /\ users = Callers
  /\ userSeq = Cardinality(DOMAIN users) + 1
  /\ categories = CategoryInit(NumDefaultCategories)
  /\ catSeq = 1
  /\ \E published \in BOOLEAN :
       posts = (1 :> [author |-> 2, title |-> "title", description |-> "",
                      content |-> "c", category |-> 1, slug |-> <<"t">>,
                      template |-> "default", published |-> published,
                      createdAt |-> 0, updatedAt |-> 0, deletedAt |-> NULL])
  /\ postSeq = 2
  /\ tags = {}
  /\ token = NoToken
  /\ flight = [p \in Procs |-> Idle]
  /\ schema = Initialized
  /\ res = [op |-> "start"]

PostsPatch ==
  /\ scope \in {"postroutes"}
  /\ \E id \in PostIds, presented \in Presented(users, now),
        request \in PostPatchRequests :
       LET auth == Authenticated(users, presented)
           userId == presented.id
           gate == IF auth THEN MiddlewareHasAdminPermissions(users, userId)
                   ELSE "unauthenticated"
           r == IF gate = "approved"
                THEN PostsPatchHandler(posts, users, categories, id, userId,
                                       request, now)
                ELSE [out |-> Boom(IF gate = "raised" THEN 500 ELSE 401),
                      posts |-> posts]
       IN  /\ res' = [op |-> "route", route |-> "PATCH /posts/{id}", id |-> id,
                      caller |-> userId, payload |-> request, gate |-> gate,
                      out |-> r.out]
           /\ posts' = r.posts
  /\ UNCHANGED <<scope, flight, schema, now, userTables, categoryTables, postSeq, tags, token>>

NextPostRoutes == PostsPost \/ PostsPatch

SpecPostRoutes == InitPostRoutes /\ [][NextPostRoutes]_vars

\* ---------------------------------------------------------------------------
\* A search statement by statement, with writers in between: the COUNT query
\* is awaited first, the query for the items is issued after it, each on a
\* connection of the pool and in no transaction
\* ---------------------------------------------------------------------------
InitRace ==
  /\ scope = "race"
  /\ now = 0
  /\ users = Callers
  /\ userSeq = Cardinality(DOMAIN users) + 1
  /\ categories = CategoryInit(NumDefaultCategories)
  /\ catSeq = 1
  /\ posts = NoRows
  /\ postSeq = 1
  /\ tags = {}
  /\ token = NoToken
  /\ flight = [p \in Procs |-> Idle]
  /\ schema = Initialized
  /\ res = [op |-> "start"]

\* search up to the answer of the COUNT query
SearchCount ==
  /\ scope \in {"race"}
  /\ \E p \in Procs, paranoid \in BOOLEAN, searchText \in {<<>>, <<"n">>} :
       LET r == CategorySearch(categories, searchText, paranoid, NULL, 0, "id")
       IN  /\ flight[p] = Idle
           /\ flight' = [flight EXCEPT ![p] =
                           [pc |-> "items", searchText |-> searchText,
                            paranoid |-> paranoid, count |-> r.val.count]]
           /\ res' = [op |-> "search", step |-> "count", table |-> "categories",
                      proc |-> p, searchText |-> searchText, paranoid |-> paranoid,
                      limit |-> NULL, offset |-> 0, orderBy |-> "id",
                      out |-> Ok([categories |-> <<>>, count |-> r.val.count])]
  /\ UNCHANGED <<scope, schema, now, tables, token>>

\* the query for the items, and the return of both answers
SearchItems ==
  /\ scope \in {"race"}
  /\ \E p \in Procs :
       /\ flight[p].pc = "items"
       /\ LET c == flight[p]
              r == CategorySearch(categories, c.searchText, c.paranoid, NULL, 0, "id")
          IN  /\ flight' = [flight EXCEPT ![p] = Idle]
              /\ res' = [op |-> "search", step |-> "items", table |-> "categories",
                         proc |-> p, searchText |-> c.searchText,
                         paranoid |-> c.paranoid,
                         limit |-> NULL, offset |-> 0, orderBy |-> "id",
                         out |-> Ok([categories |-> r.val.categories,
                                     count |-> c.count])]
  /\ UNCHANGED <<scope, schema, now, tables, token>>

NextRace ==
  \/ SearchCount \/ SearchItems
  \/ CategoryCreateCall \/ CategoryUpdateCall \/ CategorySoftDeleteCall

SpecRace == InitRace /\ [][NextRace]_vars

(* ------------------------------- claims -------------------------------- *)
\* the user of a login's token has since been soft-deleted, or has a
\* blacklist date that is not before the instant the token was signed
Revoked(tok) ==
  \/ users[tok.id].deletedAt # NULL
  \/ /\ users[tok.id].tokenBlacklistDate # NULL
     /\ tok.at <= users[tok.id].tokenBlacklistDate

\* C1: validateToken answers valid exactly when the token's user exists, is
\* not soft-deleted, and has no blacklist date or one strictly earlier than
\* the token's issued-at time (an equal one is invalid); so a token issued
\* before the blacklist date, and every token of a soft-deleted user, is
\* rejected on every later validation.
C1_ValidIffActiveAndIssuedAfterBlacklist ==
  /\ res.op = "validateToken" =>
       (res.out.isValid <=>
          /\ res.id \in DOMAIN users
          /\ users[res.id].deletedAt = NULL
          /\ \/ users[res.id].tokenBlacklistDate = NULL
             \/ users[res.id].tokenBlacklistDate < res.iat * TicksPerSecond)
  /\ (token # NoToken /\ Revoked(token)) => ~validateToken(users, token).isValid

\* an active user's token whose issued-at time equals the blacklist date was
\* validated and rejected
C1_Witness ==
  /\ res.op = "validateToken"
  /\ res.id \in DOMAIN users
  /\ users[res.id].deletedAt = NULL
  /\ users[res.id].tokenBlacklistDate = res.iat * TicksPerSecond
  /\ ~res.out.isValid

\* C2: a token issued after the user's blacklist date T, even later within
\* the same clock second as T, is accepted while the user is not soft-deleted.
C2_TokenIssuedAfterBlacklistAccepted ==
  (/\ token # NoToken
   /\ users[token.id].deletedAt = NULL
   /\ users[token.id].tokenBlacklistDate # NULL
   /\ token.at > users[token.id].tokenBlacklistDate)
  => validateToken(users, token).isValid

\* the caller a route saw holds author permissions or above
CallerIsAuthor(caller) ==
  /\ caller \in DOMAIN users
  /\ users[caller].deletedAt = NULL
  /\ users[caller].role \in DOMAIN user_roles
  /\ user_roles[users[caller].role] \in {"Author", "Editor", "Admin"}

\* C3: the published flag gates reads on both post routes: a caller who is
\* anonymous or lacks author permissions receives only published posts from
\* the post search route and from the get-by-id route.
C3_UnpublishedOnlyForAuthors ==
  (res.op = "route" /\ res.route \in {"GET /posts", "GET /posts/{id}"}
     /\ res.out.ok /\ ~CallerIsAuthor(res.caller))
  => IF res.route = "GET /posts"
     THEN \A k \in DOMAIN res.out.val : res.out.val[k].published
     ELSE res.out.val.published

GatedRoutes == {"POST /categories", "POST /posts", "DELETE /users/{id}"}

RequiredRoles(route) ==
  IF route = "POST /posts" THEN {"Author", "Editor", "Admin"} ELSE {"Admin"}

\* the request r is one the gate of its route has to turn away: it carries no
\* credentials, or those of a user without the required role, or the gate
\* did not approve it
Denied(U, r) ==
  \/ r.gate # "approved"
  \/ r.caller \notin DOMAIN U
  \/ U[r.caller].deletedAt # NULL
  \/ U[r.caller].role \notin DOMAIN user_roles
  \/ user_roles[U[r.caller].role] \notin RequiredRoles(r.route)

\* C4: when the gate of a mutating route turns a request away, the repository
\* operation behind the route is not executed: the request is answered with
\* an error and no row of any table changes.
C4_DeniedRequestChangesNoRow ==
  [][(res'.op = "route" /\ res'.route \in GatedRoutes /\ Denied(users, res'))
       => (~res'.out.ok /\ UNCHANGED tables)]_vars

\* an authenticated user without the Admin role asked to create a category
\* and was denied
C4_Witness ==
  /\ res.op = "route"
  /\ res.route = "POST /categories"
  /\ res.caller \in DOMAIN users
  /\ res.gate = "denied"
  /\ res.out = Boom(401)

\* the active users a login with this email and password identifies
Identified(email, password) ==
  {i \in DOMAIN users :
     /\ users[i].email = toLowerCase(email)
     /\ users[i].deletedAt = NULL
     /\ verifyCredentials(password, users[i].password)}

\* C5: login answers with the same 'Invalid Credentials' error when no user
\* has the email, when the user is soft-deleted and when the password is
\* wrong, and issues no token in any of the three cases.
C5_LoginFailuresIndistinguishable ==
  (res.op = "login" /\ Identified(res.email, res.password) = {})
  => (res.out = Err("Invalid Credentials") /\ token = res.held)

\* a soft-deleted user logged in with the right password and was refused
C5_Witness ==
  /\ res.op = "login"
  /\ \E i \in DOMAIN users :
       /\ users[i].email = toLowerCase(res.email)
       /\ users[i].deletedAt # NULL
       /\ verifyCredentials(res.password, users[i].password)
  /\ ~res.out.ok

\* C6: hasAdminPermissions, hasEditorPermissions and hasAuthorPermissions
\* answer false, and raise nothing, for a user id that matches no user or a
\* soft-deleted user.
C6_PermissionChecksAnswerFalse ==
  (res.op = "hasPermissions"
     /\ (res.id \notin DOMAIN users \/ users[res.id].deletedAt # NULL))
  => (res.admin = Ok(FALSE) /\ res.editor = Ok(FALSE) /\ res.author = Ok(FALSE))

\* C7: update with an absent payload or an empty one ({}) fails with the
\* invalid-payload error and changes no row, in users, categories and posts.
C7_EmptyUpdateRejected ==
  [][(res'.op = "update"
        /\ (~res'.payload.present \/ DOMAIN res'.payload.fields = {}))
       => (res'.out = Err("Invalid Update Payload Provided") /\ UNCHANGED tables)]_vars

\* the table a repository operation was called on
TableOf(r) ==
  CASE r.table = "users" -> users
    [] r.table = "categories" -> categories
    [] r.table = "posts" -> posts

\* C8: findOneById of a soft-deleted record answers not found in paranoid
\* mode, and in non-paranoid mode returns the record with its deletedAt
\* value in the result.
C8_FindSoftDeleted ==
  (res.op = "findOneById" /\ res.id \in DOMAIN TableOf(res)
     /\ TableOf(res)[res.id].deletedAt # NULL)
  => IF res.paranoid
     THEN ~res.out.ok /\ res.out.err \in {"No User Found", "No Record Found"}
     ELSE /\ res.out.ok
          /\ "deletedAt" \in DOMAIN res.out.val
          /\ res.out.val.deletedAt = TableOf(res)[res.id].deletedAt

SameIgnoringCase(a, b) == toLowerCase(a) = toLowerCase(b)

\* no two rows of a table hold the same email, category name or post slug up
\* to letter case
UniqueFields ==
  /\ \A i, j \in DOMAIN users :
       i # j => ~SameIgnoringCase(users[i].email, users[j].email)
  /\ \A i, j \in DOMAIN categories :
       i # j => ~SameIgnoringCase(categories[i].name, categories[j].name)
  /\ \A i, j \in DOMAIN posts :
       i # j => ~SameIgnoringCase(posts[i].slug, posts[j].slug)

UniqueField(table) ==
  CASE table = "users" -> "email"
    [] table = "categories" -> "name"
    [] table = "posts" -> "slug"

\* the operation r is a well-formed create, register or update that gives the
\* unique field a value another row of the table holds up to letter case
Clashes(r) ==
  CASE r.op = "register" ->
         \E i \in DOMAIN users : SameIgnoringCase(users[i].email, r.email)
    [] r.op = "create" ->
         /\ \A k \in (IF r.table = "posts"
                       THEN {"author", "title", "content", "category", "slug"}
                       ELSE {"name"}) : Truthy(r.payload, k)
         /\ \E i \in DOMAIN TableOf(r) :
              SameIgnoringCase(TableOf(r)[i][UniqueField(r.table)],
                               r.payload[UniqueField(r.table)])
    [] r.op = "update" ->
         /\ r.payload.present
         /\ DOMAIN r.payload.fields = {UniqueField(r.table)}
         /\ r.id \in DOMAIN TableOf(r)
         /\ \E i \in DOMAIN TableOf(r) \ {r.id} :
              SameIgnoringCase(TableOf(r)[i][UniqueField(r.table)],
                               r.payload.fields[UniqueField(r.table)])
    [] OTHER -> FALSE

\* C9: user emails, category names and post slugs are unique without regard
\* to letter case: creating a record, or updating one, to a value that another
\* row holds up to letter case fails with the conflict error 23505 and adds
\* or changes no row, so no two rows ever share the field case-insensitively.
C9_CaseInsensitiveUniqueness ==
  /\ UniqueFields
  /\ [][/\ (res'.op \in {"register", "create", "update"} /\ Clashes(res'))
             => (res'.out = PgErr("23505")
                 /\ UNCHANGED <<users, categories, posts, tags>>)
        /\ UNCHANGED <<users, categories, posts>> \/ UniqueFields']_vars

\* a category whose name differs from an existing one only by letter case was
\* refused with 23505 although the id it drew was free
C9_Witness ==
  /\ res.op = "create"
  /\ res.table = "categories"
  /\ res.out = PgErr("23505")
  /\ (catSeq - 1) \notin DOMAIN categories
  /\ \E i \in DOMAIN categories :
       /\ categories[i].name # res.payload.name
       /\ SameIgnoringCase(categories[i].name, res.payload.name)

\* the ids of the rows the filter of the search r selects
Matching(r) ==
  IF r.table = "categories"
  THEN {i \in DOMAIN categories :
          /\ r.paranoid => categories[i].deletedAt = NULL
          /\ r.searchText # <<>> => Like(categories[i].name, r.searchText)}
  ELSE {i \in DOMAIN posts :
          /\ r.paranoid => posts[i].deletedAt = NULL
          /\ r.filters.published => posts[i].published
          /\ r.filters.author # NULL => posts[i].author = r.filters.author}

Page(r) == IF r.table = "categories" THEN r.out.val.categories ELSE r.out.val.posts

\* C10: a search reports as count the number of rows that match its filter,
\* whatever limit and offset are; with limit 2, offset 0 and 5 matching rows
\* it returns 2 items and count 5.
C10_CountIgnoresPaging ==
  res.op = "search" =>
    /\ res.out.ok
    /\ res.out.val.count = Cardinality(Matching(res))
    /\ (res.limit = 2 /\ res.offset = 0 /\ Cardinality(Matching(res)) = 5)
         => (Len(Page(res)) = 2 /\ res.out.val.count = 5)

\* a category search with limit 2 and offset 0 over 5 matching rows returned
\* 2 items and count 5
C10_Witness ==
  /\ res.op = "search"
  /\ res.table = "categories"
  /\ res.limit = 2
  /\ res.offset = 0
  /\ Cardinality(Matching(res)) = 5
  /\ Len(Page(res)) = 2
  /\ res.out.val.count = 5

\* C11: validateToken never raises: for every decoded claim set, id or iat
\* missing or not, and every failure of the user lookup it returns a result
\* whose validity flag is false, and it returns true only when the lookup
\* found an active user who is not blacklisted as of the issued-at time.
C11_ValidateTokenNeverRaises ==
  res.op = "validateDecoded" =>
    /\ res.out \in {[isValid |-> TRUE], [isValid |-> FALSE]}
    /\ (res.fault \/ res.id = NULL \/ res.iat = NULL) => ~res.out.isValid
    /\ res.out.isValid =>
         /\ ~res.fault
         /\ res.id \in DOMAIN users
         /\ users[res.id].deletedAt = NULL
         /\ \/ users[res.id].tokenBlacklistDate = NULL
            \/ users[res.id].tokenBlacklistDate < res.iat * TicksPerSecond

\* a claim set without iat was validated for an active user who has no
\* blacklist date, and came back invalid
C11_Witness ==
  /\ res.op = "validateDecoded"
  /\ ~res.fault
  /\ res.iat = NULL
  /\ res.id \in DOMAIN users
  /\ users[res.id].deletedAt = NULL
  /\ users[res.id].tokenBlacklistDate = NULL
  /\ res.out = [isValid |-> FALSE]

\* C12: under every interleaving of concurrent calls on the same user,
\* changePassword and changeEmail write their change only if, at the time of
\* the write, the user is still not deleted and the stored password is still
\* the one that was verified.
C12_WriteOnlyWhileVerifiedStateHolds ==
  [][(res'.op \in {"changePassword", "changeEmail"} /\ res'.step = "update"
        /\ users' # users)
       => (users[res'.id].deletedAt = NULL
           /\ users[res'.id].password = res'.verified)]_vars

\* C13: the init operations, run any number of times one after another or
\* interleaved across several processes, never fail, leave exactly the role
\* rows and the default category rows that a single run leaves, and alter no
\* row that exists.
C13_InitIsRepeatable ==
  [][/\ \A p \in Procs : flight'[p].pc # "failed"
     /\ (\E p \in Procs : flight'[p].pc = "done") =>
          /\ schema' = Initialized
          /\ \A k \in 1..NumDefaultCategories : k \in DOMAIN categories'
     /\ res'.op = "init" =>
          /\ \A id \in DOMAIN schema.roles :
               id \in DOMAIN schema'.roles /\ schema'.roles[id] = schema.roles[id]
          /\ \A id \in DOMAIN categories :
               id \in DOMAIN categories' /\ categories'[id] = categories[id]
          /\ \A id \in DOMAIN categories' \ DOMAIN categories :
               id \in 1..NumDefaultCategories
               /\ categories'[id].name = DefaultCategory(id - 1).name]_vars

\* C14: the role checks follow the hierarchy Admin > Editor > Author >
\* Commenter: an Author passes the author tier only, an Editor the author and
\* editor tiers, an Admin all three and a Commenter none, so passing a tier
\* implies passing every lower tier.
C14_RoleHierarchy ==
  (res.op = "hasPermissions" /\ res.id \in DOMAIN users
     /\ users[res.id].deletedAt = NULL)
  => LET role == users[res.id].role
     IN  /\ res.admin = Ok(role <= 1)
         /\ res.editor = Ok(role <= 2)
         /\ res.author = Ok(role <= 3)
         /\ res.admin.val => res.editor.val
         /\ res.editor.val => res.author.val

\* an Admin was checked and passed all three tiers
C14_Witness ==
  /\ res.op = "hasPermissions"
  /\ res.id \in DOMAIN users
  /\ users[res.id].deletedAt = NULL
  /\ user_roles[users[res.id].role] = "Admin"
  /\ res.admin = Ok(TRUE)
  /\ res.editor = Ok(TRUE)
  /\ res.author = Ok(TRUE)

\* C15: after register with an email in any letter case the stored email is
\* its lowercase form, and login with any case variant of that email and the
\* registered password succeeds with a token whose subject is that user.
C15_EmailCaseRoundTrip ==
  /\ \A i \in DOMAIN users : users[i].email = toLowerCase(users[i].email)
  /\ (res.op = "register" /\ res.out.ok) =>
       /\ res.out.val.id = userSeq - 1
       /\ users[userSeq - 1].email = toLowerCase(res.email)
  /\ res.op = "login" =>
       \A i \in DOMAIN users :
         (/\ users[i].deletedAt = NULL
          /\ toLowerCase(res.email) = toLowerCase(users[i].email)
          /\ users[i].password = createHash(res.password))
         => (res.out.ok /\ res.out.val.id = i)

\* a user who registered in this run logged in with the upper-case variant
\* of the email
C15_Witness ==
  /\ res.op = "login"
  /\ res.email # toLowerCase(res.email)
  /\ res.out.ok
  /\ users[res.out.val.id].createdAt > 0
  /\ users[res.out.val.id].email = toLowerCase(res.email)

\* C16: changePassword and changeEmail apply their change only after the
\* supplied current password was verified against the stored hash of a user
\* who is not deleted; with a wrong password, or a missing or soft-deleted
\* user, they fail ('Invalid Password' / 'Invalid User') and leave the user's
\* row unchanged.
C16_ChangeOnlyAfterVerification ==
  [][/\ (res'.op \in {"changePassword", "changeEmail"} /\ res'.step = "verify") =>
          LET known == res'.id \in DOMAIN users /\ users[res'.id].deletedAt = NULL
              right == known /\ users[res'.id].password = createHash(res'.password)
          IN  /\ ~known => res'.out = Err("Invalid User")
              /\ (known /\ ~right) => res'.out = Err("Invalid Password")
              /\ ~right => flight'[res'.proc] = Idle
              /\ right => (res'.out.ok /\ flight'[res'.proc].pc = "update")
              /\ UNCHANGED tables
     /\ users' # users =>
          /\ res'.op \in {"changePassword", "changeEmail"}
          /\ res'.step = "update"
          /\ flight[res'.proc].pc = "update"
          /\ flight[res'.proc].verified = createHash(flight[res'.proc].password)
          /\ \A i \in DOMAIN users \ {res'.id} : users'[i] = users[i]]_vars

\* a soft-deleted user's call with the right password was refused
C16_Witness ==
  /\ res.op \in {"changePassword", "changeEmail"}
  /\ res.step = "verify"
  /\ res.id \in DOMAIN users
  /\ users[res.id].deletedAt # NULL
  /\ users[res.id].password = createHash(res.password)
  /\ res.out = Err("Invalid User")

\* C17: every user created through register has the lowest-privilege role
\* (Commenter, id 4) whatever the parameter object contains, and a successful
\* register returns a token whose subject is the new user and that
\* validateToken accepts.
C17_RegisterCreatesCommenter ==
  [][res'.op = "register" =>
       /\ \A i \in DOMAIN users' \ DOMAIN users :
            /\ users'[i].role = DefaultRole
            /\ user_roles[users'[i].role] = "Commenter"
       /\ res'.out.ok =>
            /\ res'.out.val.id \in DOMAIN users' \ DOMAIN users
            /\ users'[res'.out.val.id].email = toLowerCase(res'.params.email)
            /\ validateToken(users', res'.out.val).isValid]_vars

\* a register call that carried role 1 (Admin) created a user and returned a
\* token
C17_Witness ==
  /\ res.op = "register"
  /\ "role" \in DOMAIN res.params
  /\ res.params.role # DefaultRole
  /\ res.out.ok
  /\ res.out.val.id \in DOMAIN users
  /\ users[res.out.val.id].role = DefaultRole

\* C18: update(id, payload) with an id that matches no row of the table fails
\* with 'No Records Updated' and modifies no row, in users, categories and
\* posts (the payload being an object: an absent payload is C7's case).
C18_UpdateOfMissingRow ==
  [][(res'.op = "update" /\ res'.payload.present
        /\ res'.id \notin DOMAIN TableOf(res'))
       => (res'.out = Err("No Records Updated") /\ UNCHANGED tables)]_vars

\* row id of table `after` is row id of table `before` with deletedAt and
\* updatedAt set to t, and no other row differs
OnlyMarksDeleted(before, after, id, t) ==
  /\ DOMAIN after = DOMAIN before
  /\ \A i \in DOMAIN before \ {id} : after[i] = before[i]
  /\ id \in DOMAIN before =>
       /\ after[id].deletedAt = t
       /\ after[id].updatedAt = t
       /\ \A c \in DOMAIN before[id] \ {"deletedAt", "updatedAt"} :
            after[id][c] = before[id][c]

\* C19: there is no hard-delete path: no create, update, softDelete,
\* register, changePassword or changeEmail ever removes a row id from users,
\* categories or posts; softDelete(id) only sets deletedAt (and bumps
\* updatedAt) on row id and leaves every other field and every other row
\* unchanged.
C19_NoHardDelete ==
  [][/\ DOMAIN users \subseteq DOMAIN users'
     /\ DOMAIN categories \subseteq DOMAIN categories'
     /\ DOMAIN posts \subseteq DOMAIN posts'
     /\ (res'.op = "softDelete" /\ res'.table = "categories") =>
          /\ OnlyMarksDeleted(categories, categories', res'.id, now)
          /\ res'.out.ok <=> res'.id \in DOMAIN categories
          /\ UNCHANGED <<users, userSeq, catSeq, posts, postSeq, tags>>
     /\ (res'.op = "softDelete" /\ res'.table = "posts") =>
          /\ OnlyMarksDeleted(posts, posts', res'.id, now)
          /\ res'.out.ok <=> res'.id \in DOMAIN posts
          /\ UNCHANGED <<users, userSeq, categories, catSeq, postSeq, tags>>
     /\ (res'.op = "route" /\ res'.route = "DELETE /users/{id}") =>
          /\ res'.gate = "approved" => OnlyMarksDeleted(users, users', res'.id, now)
          /\ res'.gate # "approved" => users' = users
          /\ UNCHANGED <<userSeq, categories, catSeq, posts, postSeq, tags>>]_vars

\* a category was soft-deleted beside another category, both still there
C19_Witness ==
  /\ res.op = "softDelete" /\ res.table = "categories" /\ res.out.ok
  /\ categories[res.id].deletedAt = now
  /\ categories[res.id].createdAt < now
  /\ \E j \in DOMAIN categories : j # res.id /\ categories[j].deletedAt = NULL

\* the fields create requires of a payload, by table
RequiredFields(table) ==
  CASE table = "posts" -> {"author", "title", "content", "category", "slug"}
    [] table = "categories" -> {"name"}
    [] table = "users" -> {"email", "password"}

\* C20: create rejects a payload that lacks a required field with the
\* invalid-payload error, at the data layer, and inserts no row: posts require
\* author, title, content, category and slug; categories require name; user
\* registration requires email and password.
C20_CreateRejectsIncompletePayload ==
  [][/\ (res'.op = "create"
          /\ ~(RequiredFields(res'.table) \subseteq DOMAIN res'.payload))
         => (res'.out = Err("Invalid Create Payload Provided") /\ UNCHANGED tables)
     /\ (res'.op = "register" /\ "params" \in DOMAIN res'
          /\ ~(RequiredFields("users") \subseteq DOMAIN res'.params))
         => (res'.out = Err("Invalid Create Payload Provided") /\ UNCHANGED tables)]_vars

\* row id of table `after` is row id of table `before` with the columns of
\* `named` and updatedAt set, and no other column and no other row differs
OnlyNamedColumns(before, after, id, fields, t) ==
  LET named == DOMAIN fields \ {"tags"}
  IN  /\ DOMAIN after = DOMAIN before
      /\ id \in DOMAIN before
      /\ \A i \in DOMAIN before \ {id} : after[i] = before[i]
      /\ \A c \in DOMAIN before[id] \ (named \cup {"updatedAt"}) :
           after[id][c] = before[id][c]
      /\ \A c \in named \ {"email", "password"} : after[id][c] = fields[c]
      /\ "email" \in named => after[id].email = toLowerCase(fields.email)
      /\ "updatedAt" \notin named => after[id].updatedAt = t

\* C21: a successful update(id, payload) sets exactly the columns named in
\* the payload on row id, bumps updatedAt, and leaves every other column of
\* that row, every other row, every other table and the post's tag set
\* unchanged, in users, categories and posts.
C21_UpdateTouchesOnlyNamedColumns ==
  [][(res'.op = "update" /\ res'.out.ok) =>
       /\ res'.table = "users" =>
            /\ OnlyNamedColumns(users, users', res'.id, res'.payload.fields, now)
            /\ UNCHANGED <<userSeq, categories, catSeq, posts, postSeq, tags>>
       /\ res'.table = "categories" =>
            /\ OnlyNamedColumns(categories, categories', res'.id,
                                res'.payload.fields, now)
            /\ UNCHANGED <<users, userSeq, catSeq, posts, postSeq, tags>>
       /\ res'.table = "posts" =>
            /\ OnlyNamedColumns(posts, posts', res'.id, res'.payload.fields, now)
            /\ UNCHANGED <<users, userSeq, categories, catSeq, postSeq, tags>>]_vars

\* a post that has a tag was updated with a payload that names published and
\* tags, beside another post
C21_Witness ==
  /\ res.op = "update" /\ res.table = "posts" /\ res.out.ok
  /\ "tags" \in DOMAIN res.payload.fields
  /\ posts[res.id].published = res.payload.fields.published
  /\ posts[res.id].createdAt < posts[res.id].updatedAt
  /\ \E g \in tags : g[1] = res.id
  /\ \E j \in DOMAIN posts : j # res.id

\* the plaintext password a register call was given
SuppliedToRegister(r) ==
  IF "params" \in DOMAIN r THEN r.params.password ELSE r.password

\* C22: the stored password of every user is the hash of the last plaintext
\* supplied for it by register, update or changePassword, for every supplied
\* value including the empty string; a plaintext is never stored, and
\* findOneById does not return the password.
C22_StoredPasswordIsHash ==
  [][/\ (res'.op = "register" /\ res'.out.ok) =>
          users'[res'.out.val.id].password = createHash(SuppliedToRegister(res'))
     /\ (res'.op = "changePassword" /\ res'.step = "update" /\ res'.out.ok) =>
          users'[res'.id].password = createHash(res'.payload.fields.password)
     /\ (res'.op = "update" /\ res'.table = "users" /\ res'.out.ok
          /\ "password" \in DOMAIN res'.payload.fields) =>
          users'[res'.id].password = createHash(res'.payload.fields.password)
     /\ \A i \in DOMAIN users :
          users'[i].password # users[i].password =>
            /\ res'.op \in {"changePassword", "update"}
            /\ res'.id = i
            /\ "password" \in DOMAIN res'.payload.fields
     /\ (res'.op = "findOneById" /\ res'.table = "users" /\ res'.out.ok) =>
          "password" \notin DOMAIN res'.out.val]_vars

\* the tag names stored for a post
TagsOf(G, post) == {g[2] : g \in {h \in G : h[1] = post}}

\* C23: post create is two-phase: the post row is inserted first and the tags
\* afterwards, as insert-if-absent (post, name) pairs; a failure or a crash
\* between or during the tag inserts leaves a valid post row with a subset of
\* the requested tags; duplicate tag names in the input give one tag row and
\* no error; and every tag row refers to an existing post.
C23_PostCreateTwoPhase ==
  [][/\ \A g \in tags' : g[1] \in DOMAIN posts'
     /\ posts' # posts => (tags' = tags /\ res'.op = "create" /\ res'.step = "post")
     /\ tags' # tags =>
          /\ res'.op = "create" /\ res'.step = "tag"
          /\ res'.post \in DOMAIN posts
          /\ posts' = posts
     /\ (res'.op = "create" /\ res'.step \in {"tag", "crash"}) =>
          /\ res'.post \in DOMAIN posts'
          /\ posts'[res'.post] = posts[res'.post]
          /\ posts'[res'.post].deletedAt = NULL
          /\ TagsOf(tags', res'.post) \subseteq {res'.names[k] : k \in DOMAIN res'.names}
          /\ \A q \in DOMAIN posts' \ {res'.post} :
               TagsOf(tags', q) = TagsOf(tags, q)
     /\ (res'.op = "create" /\ res'.step = "tag" /\ ~res'.fault) =>
          /\ res'.out.ok
          /\ TagsOf(tags, res'.post) \subseteq TagsOf(tags', res'.post)
     /\ (res'.op = "create" /\ res'.step = "tag" /\ res'.returned /\ res'.out.ok) =>
          TagsOf(tags', res'.post) = {res'.names[k] : k \in DOMAIN res'.names}]_vars

\* a create stopped after one of two tags
C23_Witness ==
  /\ res.op = "create" /\ res.step = "crash"
  /\ res.names = <<"a", "b">>
  /\ Cardinality(TagsOf(tags, res.post)) = 1

\* the number of matching rows that come before row i in the requested order
Preceding(r, i) ==
  Cardinality({j \in Matching(r) : IF r.orderBy = "-id" THEN j > i ELSE j < i})

\* C24: search returns at most `limit` items for every limit the route layer
\* admits (an integer >= 0), after skipping `offset` matching rows in the
\* requested order; without a limit it returns all matching rows from the
\* offset on.
C24_SearchHonoursLimit ==
  res.op = "search" =>
    LET page == Page(res)
        n == Cardinality(Matching(res))
        rest == IF n > res.offset THEN n - res.offset ELSE 0
    IN  /\ res.out.ok
        /\ res.limit # NULL => Len(page) <= res.limit
        /\ Len(page) = IF res.limit = NULL \/ res.limit > rest THEN rest ELSE res.limit
        /\ \A k \in DOMAIN page :
             /\ page[k].id \in Matching(res)
             /\ Preceding(res, page[k].id) = res.offset + k - 1

\* the caller of a request is an active user with the Admin role
CallerIsAdmin(caller) ==
  /\ caller \in DOMAIN users
  /\ users[caller].deletedAt = NULL
  /\ users[caller].role \in DOMAIN user_roles
  /\ user_roles[users[caller].role] = "Admin"

\* C25: through PATCH on a user a caller without admin permissions can modify
\* only their own user row, and never its role, email or password; so no
\* request of a caller who is no admin changes the role of any user.
C25_NonAdminPatchesOwnRowOnly ==
  [][(res'.op = "route" /\ ~CallerIsAdmin(res'.caller)) =>
       /\ DOMAIN users' = DOMAIN users
       /\ \A i \in DOMAIN users :
            /\ i # res'.caller => users'[i] = users[i]
            /\ users'[i].role = users[i].role
            /\ users'[i].email = users[i].email
            /\ users'[i].password = users[i].password
       /\ (res'.route = "PATCH /users/{id}" /\ res'.caller # NULL
            /\ res'.id # res'.caller) => res'.out = Boom(403)]_vars

\* an Author patched their own row with a payload that names role, email and
\* password: the request was served and none of the three changed
C25_Witness ==
  /\ res.op = "route" /\ res.route = "PATCH /users/{id}"
  /\ res.out = Ok(204)
  /\ res.id = res.caller
  /\ {"role", "email", "password"} \subseteq DOMAIN res.payload.fields
  /\ users[res.caller].role = 3
  /\ users[res.caller].updatedAt = now
  /\ users[res.caller].password = createHash("p1")

\* the caller of a request is an active user with the Editor or Admin role
CallerIsEditor(caller) ==
  /\ caller \in DOMAIN users
  /\ users[caller].deletedAt = NULL
  /\ users[caller].role \in DOMAIN user_roles
  /\ user_roles[users[caller].role] \in {"Editor", "Admin"}

\* C26: a caller without editor permissions can never make a post's author
\* someone other than themselves: a post such a caller creates has the caller
\* as its author whatever the payload says, and a PATCH of such a caller
\* changes no author, and no post at all that is not already the caller's.
C26_NonEditorAuthorsOnlyAsSelf ==
  [][(res'.op = "route" /\ res'.route \in {"POST /posts", "PATCH /posts/{id}"}
        /\ ~CallerIsEditor(res'.caller)) =>
       /\ DOMAIN posts \subseteq DOMAIN posts'
       /\ \A i \in DOMAIN posts' \ DOMAIN posts : posts'[i].author = res'.caller
       /\ \A i \in DOMAIN posts :
            /\ posts'[i].author = posts[i].author
            /\ posts'[i] # posts[i] =>
                 (res'.route = "PATCH /posts/{id}" /\ i = res'.id
                    /\ posts[i].author = res'.caller)]_vars

\* an Author asked to create a post naming the administrator as its author;
\* the post was created with the Author as its author
C26_Witness ==
  /\ res.op = "route" /\ res.route = "POST /posts" /\ res.out.ok
  /\ ~CallerIsEditor(res.caller)
  /\ res.payload.author # res.caller
  /\ posts[res.out.val.id].author = res.caller

\* C27: changePassword and changeEmail leave tokenBlacklistDate unchanged:
\* every token that validateToken accepted before a successful changePassword
\* or changeEmail is still accepted after it.
C27_ChangeKeepsTokens ==
  [][(res'.op \in {"changePassword", "changeEmail"} /\ res'.step = "update"
        /\ res'.out.ok) =>
       /\ \A i \in DOMAIN users :
            users'[i].tokenBlacklistDate = users[i].tokenBlacklistDate
       /\ \A id \in UserIds, iat \in Seconds :
            validateToken(users, [id |-> id, iat |-> iat]).isValid
              => validateToken(users', [id |-> id, iat |-> iat]).isValid]_vars

\* a password was changed, and a token issued before the change to that user
\* is accepted
C27_Witness ==
  /\ res.op = "changePassword" /\ res.step = "update" /\ res.out.ok
  /\ res.payload.fields.password = "p2"
  /\ users[res.id].password = createHash("p2")
  /\ users[res.id].updatedAt > 0
  /\ validateToken(users, [id |-> res.id, iat |-> 0]).isValid

\* a category, deleted or not, has this name but for letter case
NameInUse(name) == \E i \in DOMAIN categories : CiEq(categories[i].name, name)

\* C28: after init has seeded the default categories with the explicit ids
\* 1..N, every CategoryService.create whose name differs, letter case aside,
\* from all existing category names succeeds and returns a record whose id no
\* other row uses; a conflict error is raised only for a name already in use
\* (the POST route answers 'Name provided is in use' for it).
C28_CreateAfterSeedSucceeds ==
  [][/\ (res'.op = "create" /\ res'.table = "categories"
          /\ "name" \in DOMAIN res'.payload) =>
          /\ ~NameInUse(res'.payload.name) =>
               /\ res'.out.ok
               /\ res'.out.val.id \notin DOMAIN categories
               /\ res'.out.val.id \in DOMAIN categories'
               /\ \A i \in DOMAIN categories : categories'[i] = categories[i]
          /\ res'.out = PgErr("23505") => NameInUse(res'.payload.name)
     /\ (res'.op = "route" /\ res'.route = "POST /categories"
          /\ res'.gate = "approved") =>
          /\ ~NameInUse(res'.payload.name) => res'.out.ok
          /\ res'.out = Boom(403) => NameInUse(res'.payload.name)]_vars

\* C29: the count one search call returns is the number of matching rows in
\* the database state from which the returned items were read, also when
\* creates, updates or soft-deletes run concurrently with the search: with no
\* limit and no offset, the count is the number of items.
C29_CountAndItemsAgree ==
  (res.op = "search" /\ res.step = "items") =>
    /\ res.out.val.count = Cardinality(Matching(res))
    /\ res.out.val.count = Len(Page(res))

\* the table a repository operation was called on, after the operation
TableAfter(r) ==
  CASE r.table = "users" -> users'
    [] r.table = "categories" -> categories'
    [] r.table = "posts" -> posts'

====
